---- MODULE Spec2Model ----
(***************************************************************************)
(* Model of the Brokkr saga orchestrator: the Saga and SagaStep entities  *)
(* (lib/src/entities), the record layer (lib/src/helpers/db.ts) and the   *)
(* QueueManager dispatcher (lib/src/queue-manager.ts).                    *)
(*                                                                         *)
(* One saga is created through Brokkr.createSaga and registered with the  *)
(* dispatcher.  The host builds its steps (addStep, compensateWith),      *)
(* registers workers and starts it; the dispatcher's timer fires ticks;   *)
(* every worker the dispatcher has invoked calls back exactly once with   *)
(* stepFinished or stepFailed.  Each handler runs to completion before    *)
(* the next one starts (the host serialises the calls on a saga).         *)
(***************************************************************************)
EXTENDS Integers, Sequences, FiniteSets, TLC

\* ---------------------------------------------------------------- bounds
MaxSteps == 3
MaxQueueSize == 2
MaxOthers == 2
MaxPending == 2
MaxTimers == 2
MaxCascade == 4
MaxOps == 2

\* ----------------------------------------------------------- value sets
WorkerNames == {"w1", "w2"}
Results == {"r1"}
\* stepFinished(stepId) without a result: the record has no result field,
\* and JSON.stringify writes the missing value as null inside dependencyArgs
NoResult == "null"
\* results that have no JSON text: an object that refers to itself, a function,
\* the BigInt 0n and the number Infinity
NotEncodable == {"circular", "function", "bigint0", "Infinity"}
\* no compensatorId field on the record
NoStep == 0
\* no entry for the table in the meta record
NoMeta == 0

SagaStatus == {"Created", "Running", "Finished", "Failed"}
SagaStepStatus ==
    {"Created", "WaitingForCompensation", "Queued", "Running", "Finished", "Failed", "RolledBack"}

VARIABLES
    sagaStatus,       \* persisted ISaga.status of the saga
    steps,            \* the saga's step table: step id (1..Len) -> ISagaStep record
    sagas,            \* QueueManager.sagas: TRUE while the saga is registered
    workers,          \* QueueManager.workers: names of the registered workers
    queueMap,         \* QueueManager.queueMap: ids holding an in-flight slot
    queueSize,        \* QueueManager.queueSize
    failSagaOnError,  \* QueueManager.failSagaOnError
    invoked,          \* steps whose worker.run was called and has not called back yet
    last,             \* the handler that ran last and the step it was called for
    calls,            \* per step, the dependencyArgs of every worker.run made for it
    tickLock,         \* QueueManager.tickLock
    pending,          \* the per-saga callbacks of ticks in progress, with what they read
    timers,           \* number of live setInterval timers that fire QueueManager.tick
    pollingInterval,  \* QueueManager.pollingInterval holds a timer handle
    others,           \* step statuses of a second registered saga (ids above MaxSteps)
    rejected,         \* a callback of the tick in progress has rejected
    db,               \* id allocation: the create() in use, the number of uuids
                      \* generated, the lastId of the step table in the meta record
    ops               \* the calls on the saga that are in progress or have returned,
                      \* each with the place it has reached and what it has read

\* the dispatcher state that the operations on a saga do not touch
timerVars == <<tickLock, pending, timers, pollingInterval, others, rejected>>

vars == <<sagaStatus, steps, sagas, workers, queueMap, queueSize, failSagaOnError,
          invoked, last, calls, tickLock, pending, timers, pollingInterval, others,
          rejected, db, ops>>

StepIds == 1..Len(steps)

\* ------------------------------------------------------- helper operators
\* all sequences without repetition over the set S (dependsOn lists)
RECURSIVE DistinctSeqs(_)
DistinctSeqs(S) ==
    {<<>>} \cup UNION {{<<x>> \o t : t \in DistinctSeqs(S \ {x})} : x \in S}

Range(f) == {f[i] : i \in DOMAIN f}

\* a step created by compensateWith (some step points to it with compensatorId)
IsCompensator(st, id) == \E p \in DOMAIN st : st[p].compensatorId = id

\* ------------------------------------------------- helpers/db.ts, entities
\* update(): read the record, shallow-merge the patch over it, write it back
update(st, id, patch) ==
    [st EXCEPT ![id] = [f \in DOMAIN st[id] |->
                            IF f \in DOMAIN patch THEN patch[f] ELSE st[id][f]]]

\* uuid/v1: the n-th identifier the process generates.  The identifiers are made
\* of the time, a clock sequence and the node, so they are distinct, and none of
\* them is a decimal numeral
Uuids == <<"uuid-a", "uuid-b", "uuid-c", "uuid-d", "uuid-e", "uuid-f", "uuid-g", "uuid-h">>

uuid(n) == Uuids[n]

\* Number.prototype.toString on a positive integer: its decimal digits
Digits == <<"0", "1", "2", "3", "4", "5", "6", "7", "8", "9">>

RECURSIVE toString(_)
toString(n) ==
    IF n < 10 THEN Digits[n + 1] ELSE toString(n \div 10) \o Digits[(n % 10) + 1]

\* create() of the meta table: the lastId it writes to the table's entry, 1 for a
\* table that has no entry yet
lastId(oldTableMeta) == IF oldTableMeta = NoMeta THEN 1 ELSE oldTableMeta + 1

\* client.set on the table: the record stored under the key.  The table keeps
\* the records in the order in which their keys were first set, which is the
\* order in which getIds lists them, and a record is named by its place in it
set(st, key, value) ==
    IF key \in DOMAIN st THEN [st EXCEPT ![key] = value] ELSE Append(st, value)

\* The source holds two versions of create().  helpers/db.ts, which the entities
\* import: the id is a new uuid.  The one kept at the end of entities/saga.ts: the
\* id is the table's lastId, read from the meta record, advanced and written back.
\* idOf is the id of the new record, keyOf its place in the table, dbOf the state
\* of the id allocation after the call
idOf(d) == IF d.create = "uuid" THEN uuid(d.uuids + 1) ELSE toString(lastId(d.lastId))

keyOf(st, d) == IF d.create = "uuid" THEN Len(st) + 1 ELSE lastId(d.lastId)

dbOf(d) ==
    IF d.create = "uuid" THEN [d EXCEPT !.uuids = @ + 1]
    ELSE [d EXCEPT !.lastId = lastId(@)]

\* create(): the record {id, ...values} is stored under its id
create(st, d, values) == set(st, keyOf(st, d), [id |-> idOf(d)] @@ values)

\* SagaStep.createFromSaga: status Created unless the caller's values set one
createFromSaga(st, d, workerName, dependsOn, status) ==
    create(st, d,
           [status |-> status, workerName |-> workerName, dependsOn |-> dependsOn,
            compensatorId |-> NoStep, result |-> NoResult, dependencyArgs |-> <<>>])

\* Faulty variant of compensateWithSteps: the compensator is created as an
\* ordinary step
compensateWithCreated(st, d, id, workerName) ==
    IF id = NoStep THEN st
    ELSE update(createFromSaga(st, d, workerName, <<id>>, "Created"),
                id, [compensatorId |-> keyOf(st, d)])

\* SagaStep.compensateWith on the step table: it throws on a step that has no id
\* (a SagaStep object that was not created); else the new step, then the update
\* of the compensated step's compensatorId
compensateWithSteps(st, d, id, workerName) ==
    IF id = NoStep THEN st
    ELSE update(createFromSaga(st, d, workerName, <<id>>, "WaitingForCompensation"),
                id, [compensatorId |-> keyOf(st, d)])

\* Faulty variant of errorDependency: the dependencies are not looked at
errorDependencyNone(st, id) == FALSE

\* SagaStep.enqueueStep: the dependency that makes it throw, if any
errorDependency(st, id) ==
    \E i \in DOMAIN st[id].dependsOn :
        st[st[id].dependsOn[i]].status \notin {"Finished", "RolledBack"}

\* Faulty variant of enqueueStep: dependencyArgs holds the results in the order
\* of the step ids, not of dependsOn
RECURSIVE resultsByKey(_, _, _)
resultsByKey(st, S, k) ==
    IF k > Len(st) THEN <<>>
    ELSE (IF k \in S THEN <<st[k].result>> ELSE <<>>) \o resultsByKey(st, S, k + 1)

enqueueStepByKey(st, id) ==
    IF errorDependency(st, id)
    THEN st
    ELSE update(st, id,
                [dependencyArgs |-> resultsByKey(st, Range(st[id].dependsOn), 1),
                 status |-> "Queued"])

\* SagaStep.enqueueStep: throws (no write) on an unsatisfied dependency, else
\* writes dependencyArgs = the dependencies' results in dependsOn order and Queued
enqueueStep(st, id) ==
    IF errorDependency(st, id)
    THEN st
    ELSE update(st, id,
                [dependencyArgs |-> [i \in DOMAIN st[id].dependsOn |->
                                        st[st[id].dependsOn[i]].result],
                 status |-> "Queued"])

\* JSON.stringify: throws on a circular structure and on a BigInt; returns
\* undefined (no text) for a function; writes Infinity, like a missing value, as null
stringifyThrows(value) == value \in {"circular", "bigint0"}

stringify(value) ==
    IF value = "function" THEN "undefined"
    ELSE IF value \in {"Infinity", NoResult} THEN "null"
    ELSE value

\* JSON.parse: throws when it is given undefined, else returns the value of the text
parseThrows(text) == text = "undefined"

\* the truth value of a result: a missing result and 0n are falsy
truthy(value) == value \notin {NoResult, "bigint0"}

\* Saga.stepFinished, lines 63-71: the check of the result throws
checkThrows(result) ==
    truthy(result) /\ (stringifyThrows(result) \/ parseThrows(stringify(result)))

\* client.set (JSON.stringify of the record): the result field as it is stored; a
\* field that holds a function is left out of the text
stored(result) == IF result \in {"function", "Infinity"} THEN NoResult ELSE result

\* SagaStep.finished
finished(st, id, result) == update(st, id, [result |-> result, status |-> "Finished"])

\* SagaStep.fail
fail(st, id) == update(st, id, [status |-> "Failed"])

\* Faulty variant of rollback: the rolled-back step is written Failed
rollbackAsFailed(st, id) ==
    LET compensatorId == st[id].compensatorId
        st1 == update(st, id, [status |-> "Failed"])
    IN  IF compensatorId # NoStep THEN enqueueStep(st1, compensatorId) ELSE st1

\* Faulty variant of rollback: the compensator is not enqueued
rollbackWithoutCompensator(st, id) == update(st, id, [status |-> "RolledBack"])

\* SagaStep.rollback: RolledBack, then the compensator (if any) is enqueued
rollback(st, id) ==
    LET compensatorId == st[id].compensatorId
        st1 == update(st, id, [status |-> "RolledBack"])
    IN  IF compensatorId # NoStep THEN enqueueStep(st1, compensatorId) ELSE st1

\* Saga.tick, lines 193-199: enqueueStep for every step of the set S (a
\* Promise.all fan-out: every call writes only its own step)
RECURSIVE enqueueSteps(_, _)
enqueueSteps(st, S) ==
    IF S = {} THEN st
    ELSE LET id == CHOOSE x \in S : \A y \in S : x <= y
         IN  enqueueSteps(enqueueStep(st, id), S \ {id})

\* Saga.stepFailed, lines 113-119: rollback for every step of the set S (every
\* call writes only its own step and its compensator, which no other call touches)
RECURSIVE rollbackSteps(_, _)
rollbackSteps(st, S) ==
    IF S = {} THEN st
    ELSE LET id == CHOOSE x \in S : \A y \in S : x <= y
         IN  rollbackSteps(rollback(st, id), S \ {id})

\* Saga.tick, lines 174-191: the Created steps whose dependencies all are Finished
allFinished(st, id) ==
    LET dependencies == Range(st[id].dependsOn)
        currDependentSteps == {d \in DOMAIN st : d \in dependencies}
    IN  \/ currDependentSteps = {}
        \/ ~ \E d \in currDependentSteps : st[d].status # "Finished"

\* Faulty variant of unqueuedSteps: the steps that wait for compensation are taken too
unqueuedStepsAndCompensators(st) ==
    {id \in DOMAIN st : st[id].status \in {"Created", "WaitingForCompensation"}}

unqueuedSteps(st) == {id \in DOMAIN st : st[id].status = "Created"}

\* Faulty variant of stepsToExecute: only the steps without dependencies are taken
stepsToExecuteNoDependencies(st) == {id \in unqueuedSteps(st) : st[id].dependsOn = <<>>}

stepsToExecute(st) == {id \in unqueuedSteps(st) : allFinished(st, id)}

\* Faulty variant of tickSaga: the saga's status is not looked at
tickSagaAnyStatus(status, st) == IF unqueuedSteps(st) = {} THEN "Finished" ELSE status

\* Saga.tick: the saga record and the step table it leaves behind
tickSaga(status, st) ==
    IF status # "Running" THEN status
    ELSE IF unqueuedSteps(st) = {} THEN "Finished"
    ELSE status

\* Faulty variant of tickSteps: the steps that were enqueued before are enqueued
\* again while they are not done
tickStepsRequeue(status, st) ==
    IF status # "Running" \/ unqueuedSteps(st) = {} THEN st
    ELSE enqueueSteps(st, {id \in DOMAIN st : /\ st[id].status \in {"Created", "Queued", "Running"}
                                             /\ allFinished(st, id)})

tickSteps(status, st) ==
    IF status # "Running" \/ unqueuedSteps(st) = {} THEN st
    ELSE enqueueSteps(st, stepsToExecute(st))

\* Faulty variant of stepsToRollback: only the steps that have a compensator
stepsToRollbackCompensated(st) ==
    {id \in DOMAIN st : st[id].status = "Finished" /\ st[id].compensatorId # NoStep}

\* Faulty variant of stepsToRollback: the steps that were started, Running included
stepsToRollbackStarted(st) == {id \in DOMAIN st : st[id].status \in {"Running", "Finished"}}

\* Saga.stepFailed: the steps it rolls back are those Finished when enumerated,
\* which is before the named step is marked Failed
stepsToRollback(st) == {id \in DOMAIN st : st[id].status = "Finished"}

\* Faulty variant of stepFailedSteps: the named step is marked Failed after the
\* rollbacks
stepFailedStepsFailLast(st, stepId) == fail(rollbackSteps(st, stepsToRollback(st)), stepId)

stepFailedSteps(st, stepId) == rollbackSteps(fail(st, stepId), stepsToRollback(st))

\* ------------------------------------------------------- queue-manager.ts
\* Faulty variant of scanSteps: a Queued step is run whether or not there is room
RECURSIVE scanStepsNoCapacity(_, _, _, _, _)
scanStepsNoCapacity(st, size, k, q, run) ==
    IF k > Len(st) THEN [queueMap |-> q, run |-> run]
    ELSE LET q1 == IF k \in q /\ st[k].status # "Running" THEN q \ {k} ELSE q
             go == k \notin q1 /\ st[k].status = "Queued"
         IN  scanStepsNoCapacity(st, size, k + 1,
                                 IF go THEN q1 \cup {k} ELSE q1,
                                 IF go THEN run \cup {k} ELSE run)

\* QueueManager.tick, lines 163-183, over the step records read at the start of
\* the tick, in key order: release the slot of a tracked step that is no longer
\* Running, then claim a slot for a Queued step while there is room.
\* Returns the in-flight map and the steps handed to runStep.
RECURSIVE scanSteps(_, _, _, _, _)
scanSteps(st, size, k, q, run) ==
    IF k > Len(st) THEN [queueMap |-> q, run |-> run]
    ELSE LET q1 == IF k \in q /\ st[k].status # "Running" THEN q \ {k} ELSE q
             go == k \notin q1 /\ st[k].status = "Queued" /\ Cardinality(q1) < size
         IN  scanSteps(st, size, k + 1,
                       IF go THEN q1 \cup {k} ELSE q1,
                       IF go THEN run \cup {k} ELSE run)

\* Faulty variant of runStepSteps: the worker is run without the step being
\* written Running
runStepStepsNoWrite(ws, failOnError, st, stepId) ==
    IF st[stepId].workerName \notin ws
    THEN IF failOnError THEN stepFailedSteps(st, stepId) ELSE st
    ELSE st

\* QueueManager.runStep on the step table: an unregistered worker fails the saga
\* (when failSagaOnError), a registered one has the step written Running
runStepSteps(ws, failOnError, st, stepId) ==
    IF st[stepId].workerName \notin ws
    THEN IF failOnError THEN stepFailedSteps(st, stepId) ELSE st
    ELSE update(st, stepId, [status |-> "Running"])

RECURSIVE runSteps(_, _, _, _)
runSteps(ws, failOnError, st, run) ==
    IF run = {} THEN st
    ELSE LET id == CHOOSE x \in run : \A y \in run : x <= y
         IN  runSteps(ws, failOnError, runStepSteps(ws, failOnError, st, id), run \ {id})

\* the steps of a run set whose worker is called / is not registered
withWorker(ws, st, run) == {id \in run : st[id].workerName \in ws}
withoutWorker(ws, st, run) == {id \in run : st[id].workerName \notin ws}

\* QueueManager.runStep, line 228: worker.run receives the dependencyArgs of the
\* step record the tick read (an empty list when there are none)
runCalls(ws, snap, cs, run) ==
    [id \in DOMAIN cs |->
        IF id \in withWorker(ws, snap, run) THEN Append(cs[id], snap[id].dependencyArgs)
        ELSE cs[id]]

\* Faulty variant of tickSkipped: a tick runs although another one is in progress
tickNeverSkipped == FALSE

\* QueueManager.tick, lines 130-134: a tick that finds the lock taken does nothing
tickSkipped == tickLock

\* QueueManager.tick, lines 168-180: queueMap[step.id] for the i-th step of the
\* second saga.  A uuid is shared with no step of the saga (the keys above
\* MaxSteps); with the meta table the i-th step of either saga has the id i
queueKey(i) == IF db.create = "uuid" THEN MaxSteps + i ELSE i

\* the step loop of QueueManager.tick over the records read for the second saga
RECURSIVE scanOthers(_, _, _, _, _)
scanOthers(snap, size, i, q, run) ==
    IF i > Len(snap) THEN [queueMap |-> q, run |-> run]
    ELSE LET k == queueKey(i)
             q1 == IF k \in q /\ snap[i] # "Running" THEN q \ {k} ELSE q
             go == k \notin q1 /\ snap[i] = "Queued" /\ Cardinality(q1) < size
         IN  scanOthers(snap, size, i + 1,
                        IF go THEN q1 \cup {k} ELSE q1,
                        IF go THEN run \cup {i} ELSE run)

\* ------------------------------------------------------------------ state
InitSaga ==
    /\ sagaStatus = "Created"
    /\ steps = <<>>
    /\ sagas = TRUE
    /\ workers = {}
    /\ queueMap = {}
    /\ queueSize \in 1..MaxQueueSize
    /\ failSagaOnError \in BOOLEAN
    /\ invoked = {}
    /\ last = [op |-> "createSaga", id |-> NoStep]
    /\ calls = <<>>
    /\ tickLock = FALSE
    /\ pending = <<>>
    /\ timers = 1
    /\ pollingInterval = TRUE
    /\ others = <<>>
    /\ rejected = FALSE
    /\ ops = <<>>

\* the saga was created with the create() of helpers/db.ts
Init == InitSaga /\ db = [create |-> "uuid", uuids |-> 1, lastId |-> NoMeta]

\* the saga was created with either version of create()
InitCreate ==
    /\ InitSaga
    /\ db \in {[create |-> c, uuids |-> 1, lastId |-> NoMeta] : c \in {"uuid", "meta"}}

\* Saga.addStep(workerName, args, dependsOnSteps), called while the saga is built;
\* dependsOnSteps lists existing steps of the saga, in any order
addStep(workerName, dependsOn) ==
    /\ steps' = createFromSaga(steps, db, workerName, dependsOn, "Created")
    /\ db' = dbOf(db)
    /\ last' = [op |-> "addStep", id |-> keyOf(steps, db)]
    /\ calls' = Append(calls, <<>>)
    /\ UNCHANGED <<sagaStatus, sagas, workers, queueMap, queueSize, ops, failSagaOnError,
                   invoked, timerVars>>

AddStep(workerName, dependsOn) ==
    /\ sagaStatus = "Created"
    /\ Len(steps) < MaxSteps
    /\ addStep(workerName, dependsOn)

\* SagaStep.compensateWith(workerName, args) on step id: a new step waiting for
\* compensation that depends on id, and id's compensatorId pointing to it
compensateWith(id, workerName) ==
    /\ steps' = compensateWithSteps(steps, db, id, workerName)
    /\ db' = IF id = NoStep THEN db ELSE dbOf(db)
    /\ last' = [op |-> "compensateWith", id |-> id]
    /\ calls' = IF id = NoStep THEN calls ELSE Append(calls, <<>>)
    /\ UNCHANGED <<sagaStatus, sagas, workers, queueMap, queueSize, ops, failSagaOnError,
                   invoked, timerVars>>

CompensateWith(id, workerName) ==
    /\ sagaStatus = "Created"
    /\ Len(steps) < MaxSteps
    /\ steps[id].compensatorId = NoStep
    /\ ~ IsCompensator(steps, id)
    /\ compensateWith(id, workerName)

\* QueueManager.addWorker
AddWorker(workerName) ==
    /\ workerName \notin workers
    /\ workers' = workers \cup {workerName}
    /\ last' = [op |-> "addWorker", id |-> NoStep]
    /\ UNCHANGED <<sagaStatus, steps, sagas, queueMap, queueSize, ops, db, failSagaOnError,
                   invoked, calls, timerVars>>

\* Saga.start: write Running, then tick; the host may call it in any state
Start ==
    /\ sagaStatus' = tickSaga("Running", steps)
    /\ steps' = tickSteps("Running", steps)
    /\ last' = [op |-> "start", id |-> NoStep]
    /\ UNCHANGED <<sagas, workers, queueMap, queueSize, ops, db, failSagaOnError, invoked,
                   calls, timerVars>>

\* Saga.stepFinished(stepId, result), called by the worker invoked for stepId
StepFinished(stepId, result) ==
    /\ stepId \in invoked
    /\ invoked' = invoked \ {stepId}
    /\ sagaStatus' = tickSaga(sagaStatus, finished(steps, stepId, result))
    /\ steps' = tickSteps(sagaStatus, finished(steps, stepId, result))
    /\ last' = [op |-> "stepFinished", id |-> stepId]
    /\ UNCHANGED <<sagas, workers, queueMap, queueSize, ops, db, failSagaOnError, calls, timerVars>>

\* Saga.stepFailed(stepId), called by the worker invoked for stepId
StepFailed(stepId) ==
    /\ stepId \in invoked
    /\ invoked' = invoked \ {stepId}
    /\ sagaStatus' = "Failed"
    /\ steps' = stepFailedSteps(steps, stepId)
    /\ last' = [op |-> "stepFailed", id |-> stepId]
    /\ UNCHANGED <<sagas, workers, queueMap, queueSize, ops, db, failSagaOnError, calls, timerVars>>

\* QueueManager.tick, lines 138-193: the callback for the saga, given the saga
\* record and the step records it read; the steps handed to runStep are written
\* in the store as it is now
SagaCallback(snapStatus, snap) ==
    LET scan == scanSteps(snap, queueSize, 1, queueMap, {})
        failing == failSagaOnError /\ withoutWorker(workers, snap, scan.run) # {}
    IN  /\ queueMap' = scan.queueMap
        /\ steps' = runSteps(workers, failSagaOnError, steps, scan.run)
        /\ sagaStatus' = IF failing THEN "Failed" ELSE sagaStatus
        /\ invoked' = invoked \cup withWorker(workers, snap, scan.run)
        /\ calls' = runCalls(workers, snap, calls, scan.run)
        /\ sagas' = IF snapStatus \in {"Finished", "Failed"} THEN FALSE ELSE sagas

\* QueueManager.tick, fired by a polling timer, with every runStep it starts, when
\* nothing else runs between its reads and its writes
Tick ==
    /\ timers > 0
    /\ ~ tickSkipped
    /\ sagas
    /\ SagaCallback(sagaStatus, steps)
    /\ last' = [op |-> "tick", id |-> NoStep]
    /\ UNCHANGED <<workers, queueSize, ops, db, failSagaOnError, timerVars>>

\* QueueManager.tick in its parts, with other operations running in between: the
\* tick takes the lock and starts one callback per registered saga, which reads
\* the saga's records ...
pendingSelf == IF sagas THEN <<[saga |-> "self", status |-> sagaStatus, steps |-> steps]>> ELSE <<>>
pendingOthers == IF others # <<>> THEN <<[saga |-> "others", steps |-> others]>> ELSE <<>>

TickBegin ==
    /\ timers > 0
    /\ ~ tickSkipped
    /\ pendingSelf \o pendingOthers # <<>>
    /\ Len(pending \o pendingSelf \o pendingOthers) <= MaxPending
    /\ tickLock' = TRUE
    /\ pending' = pending \o pendingSelf \o pendingOthers
    /\ last' = [op |-> "tickBegin", id |-> NoStep]
    /\ UNCHANGED <<sagaStatus, steps, sagas, workers, queueMap, queueSize, ops, db, failSagaOnError,
                   invoked, calls, timers, pollingInterval, rejected, others>>

Remove(seq, i) == SubSeq(seq, 1, i - 1) \o SubSeq(seq, i + 1, Len(seq))

\* ... then runs its step loop over them ...
TickSaga(i) ==
    /\ i \in DOMAIN pending
    /\ pending[i].saga = "self"
    /\ SagaCallback(pending[i].status, pending[i].steps)
    /\ pending' = Remove(pending, i)
    /\ last' = [op |-> "tick", id |-> NoStep]
    /\ UNCHANGED <<workers, queueSize, ops, db, failSagaOnError, tickLock, timers, pollingInterval, rejected,
                   others>>

\* ... (for the second saga, whose steps are independent and have a worker) ...
TickOthers(i) ==
    /\ i \in DOMAIN pending
    /\ pending[i].saga = "others"
    /\ LET scan == scanOthers(pending[i].steps, queueSize, 1, queueMap, {})
       IN  /\ queueMap' = scan.queueMap
           /\ others' = [j \in DOMAIN others |-> IF j \in scan.run THEN "Running" ELSE others[j]]
    /\ pending' = Remove(pending, i)
    /\ last' = [op |-> "tickOthers", id |-> NoStep]
    /\ UNCHANGED <<sagaStatus, steps, sagas, workers, queueSize, ops, db, failSagaOnError, invoked,
                   calls, tickLock, timers, pollingInterval, rejected>>

\* ... and the tick releases the lock when all its callbacks are done
TickEnd ==
    /\ tickLock
    /\ ~ rejected
    /\ pending = <<>>
    /\ tickLock' = FALSE
    /\ last' = [op |-> "tickEnd", id |-> NoStep]
    /\ UNCHANGED <<sagaStatus, steps, sagas, workers, queueMap, queueSize, ops, db, failSagaOnError,
                   invoked, calls, pending, timers, pollingInterval, rejected, others>>

\* the second saga: one of its steps becomes Queued; the worker of a Running
\* step calls stepFinished
OthersEnqueue ==
    /\ Len(others) < MaxOthers
    /\ others' = Append(others, "Queued")
    /\ last' = [op |-> "othersEnqueue", id |-> NoStep]
    /\ UNCHANGED <<sagaStatus, steps, sagas, workers, queueMap, queueSize, ops, db, failSagaOnError,
                   invoked, calls, tickLock, pending, timers, pollingInterval, rejected>>

OthersFinished(i) ==
    /\ others[i] = "Running"
    /\ others' = [others EXCEPT ![i] = "Finished"]
    /\ last' = [op |-> "othersFinished", id |-> NoStep]
    /\ UNCHANGED <<sagaStatus, steps, sagas, workers, queueMap, queueSize, ops, db, failSagaOnError,
                   invoked, calls, tickLock, pending, timers, pollingInterval, rejected>>

Next ==
    \/ \E w \in WorkerNames : \E d \in DistinctSeqs(StepIds) : AddStep(w, d)
    \/ \E id \in StepIds : \E w \in WorkerNames : CompensateWith(id, w)
    \/ \E w \in WorkerNames : AddWorker(w)
    \/ Start
    \/ \E id \in StepIds : \E r \in Results \cup {NoResult} : StepFinished(id, r)
    \/ \E id \in StepIds : StepFailed(id)
    \/ Tick

Spec == Init /\ [][Next]_vars

\* The usual life cycle: start is called once, on the saga as it was built
StartOnce == sagaStatus = "Created" /\ Start

NextStartOnce ==
    \/ \E w \in WorkerNames : \E d \in DistinctSeqs(StepIds) : AddStep(w, d)
    \/ \E id \in StepIds : \E w \in WorkerNames : CompensateWith(id, w)
    \/ \E w \in WorkerNames : AddWorker(w)
    \/ StartOnce
    \/ \E id \in StepIds : \E r \in Results \cup {NoResult} : StepFinished(id, r)
    \/ \E id \in StepIds : StepFailed(id)
    \/ Tick

SpecStartOnce == Init /\ [][NextStartOnce]_vars

\* A run without failures, for the progress claims: a saga without compensators,
\* the host registers every worker before it starts the saga, every worker that
\* was invoked calls stepFinished, and the timer keeps firing the dispatcher's tick
StartRegistered == workers = WorkerNames /\ StartOnce

NextFair ==
    \/ \E w \in WorkerNames : \E d \in DistinctSeqs(StepIds) : AddStep(w, d)
    \/ \E w \in WorkerNames : AddWorker(w)
    \/ StartRegistered
    \/ \E id \in StepIds : \E r \in Results \cup {NoResult} : StepFinished(id, r)
    \/ Tick

SpecFair ==
    /\ Init
    /\ [][NextFair]_vars
    /\ WF_vars(Tick)
    /\ WF_vars(\E id \in StepIds : \E r \in Results \cup {NoResult} : StepFinished(id, r))

\* The dispatcher's tick interleaved with the operations on the saga: whatever
\* the host and the workers call between a tick's reads and its step loop
NextTicks ==
    \/ \E w \in WorkerNames : \E d \in DistinctSeqs(StepIds) : AddStep(w, d)
    \/ \E id \in StepIds : \E w \in WorkerNames : CompensateWith(id, w)
    \/ \E w \in WorkerNames : AddWorker(w)
    \/ StartOnce
    \/ \E id \in StepIds : \E r \in Results \cup {NoResult} : StepFinished(id, r)
    \/ \E id \in StepIds : StepFailed(id)
    \/ TickBegin
    \/ \E i \in DOMAIN pending : TickSaga(i)
    \/ TickEnd

SpecTicks == Init /\ [][NextTicks]_vars

\* Two sagas registered with one dispatcher: the saga and a second one, whose
\* callbacks of a tick run in either order, interleaved with the operations on
\* both (sagas without compensators, whose workers succeed when they are run)
NextSagas ==
    \/ \E w \in WorkerNames : \E d \in DistinctSeqs(StepIds) : AddStep(w, d)
    \/ \E w \in WorkerNames : AddWorker(w)
    \/ StartOnce
    \/ \E id \in StepIds : \E r \in Results : StepFinished(id, r)
    \/ OthersEnqueue
    \/ \E i \in DOMAIN others : OthersFinished(i)
    \/ TickBegin
    \/ \E i \in DOMAIN pending : TickSaga(i)
    \/ \E i \in DOMAIN pending : TickOthers(i)
    \/ TickEnd

SpecSagas == Init /\ [][NextSagas]_vars

\* The life cycle of a saga whose workers may be missing or fail, under a timer
\* that keeps firing the dispatcher's tick and workers that do call back
NextDispatch ==
    \/ \E w \in WorkerNames : \E d \in DistinctSeqs(StepIds) : AddStep(w, d)
    \/ \E id \in StepIds : \E w \in WorkerNames : CompensateWith(id, w)
    \/ \E w \in WorkerNames : AddWorker(w)
    \/ StartOnce
    \/ \E id \in StepIds : \E r \in Results \cup {NoResult} : StepFinished(id, r)
    \/ \E id \in StepIds : StepFailed(id)
    \/ Tick

SpecFairDispatch ==
    /\ Init
    /\ [][NextDispatch]_vars
    /\ WF_vars(Tick)
    /\ WF_vars(\E id \in StepIds : \/ \E r \in Results \cup {NoResult} : StepFinished(id, r)
                                   \/ StepFailed(id))

\* Faulty variant of unfinishedSagas: only the Finished sagas are left out
unfinishedSagasNotFinished(status) == status # "Finished"

\* Brokkr.restorePreviousState, lines 83-85: the filter on the persisted sagas
unfinishedSagas(status) == status # "Finished" /\ status # "Failed"

\* The process is started again: a new Brokkr, with a new QueueManager whose
\* timer is started, over the store as it is; the workers of the old process
\* and their callbacks are gone
Restart ==
    /\ sagas' = FALSE
    /\ workers' = {}
    /\ queueMap' = {}
    /\ invoked' = {}
    /\ calls' = [id \in DOMAIN calls |-> <<>>]
    /\ tickLock' = FALSE
    /\ pending' = <<>>
    /\ timers' = 1
    /\ pollingInterval' = TRUE
    /\ rejected' = FALSE
    /\ last' = [op |-> "restart", id |-> NoStep]
    /\ UNCHANGED <<sagaStatus, steps, queueSize, ops, db, failSagaOnError, others>>

\* Brokkr.restorePreviousState: the persisted sagas that pass the filter are
\* added to the dispatcher; no record is written
RestorePreviousState ==
    /\ sagas' = (sagas \/ unfinishedSagas(sagaStatus))
    /\ last' = [op |-> "restorePreviousState", id |-> NoStep]
    /\ UNCHANGED <<sagaStatus, steps, workers, queueMap, queueSize, ops, db, failSagaOnError, invoked,
                   calls, timerVars>>

NextRestore ==
    \/ \E w \in WorkerNames : \E d \in DistinctSeqs(StepIds) : AddStep(w, d)
    \/ \E id \in StepIds : \E w \in WorkerNames : CompensateWith(id, w)
    \/ \E w \in WorkerNames : AddWorker(w)
    \/ StartOnce
    \/ \E id \in StepIds : \E r \in Results \cup {NoResult} : StepFinished(id, r)
    \/ \E id \in StepIds : StepFailed(id)
    \/ Tick
    \/ Restart
    \/ RestorePreviousState

SpecRestore == Init /\ [][NextRestore]_vars

\* QueueManager.start (Brokkr.startWorkers): a new interval timer is set and its
\* handle stored over the one held
StartWorkers ==
    /\ timers < MaxTimers
    /\ timers' = timers + 1
    /\ pollingInterval' = TRUE
    /\ last' = [op |-> "startWorkers", id |-> NoStep]
    /\ UNCHANGED <<sagaStatus, steps, sagas, workers, queueMap, queueSize, ops, db, failSagaOnError,
                   invoked, calls, tickLock, pending, others, rejected>>

\* QueueManager.stop (Brokkr.stopWorkers): the timer whose handle is held, if
\* any, is cleared, and the handle dropped
StopWorkers ==
    /\ timers' = IF pollingInterval THEN timers - 1 ELSE timers
    /\ pollingInterval' = FALSE
    /\ last' = [op |-> "stopWorkers", id |-> NoStep]
    /\ UNCHANGED <<sagaStatus, steps, sagas, workers, queueMap, queueSize, ops, db, failSagaOnError,
                   invoked, calls, tickLock, pending, others, rejected>>

NextTimer ==
    \/ \E w \in WorkerNames : \E d \in DistinctSeqs(StepIds) : AddStep(w, d)
    \/ \E id \in StepIds : \E w \in WorkerNames : CompensateWith(id, w)
    \/ \E w \in WorkerNames : AddWorker(w)
    \/ StartOnce
    \/ \E id \in StepIds : \E r \in Results \cup {NoResult} : StepFinished(id, r)
    \/ \E id \in StepIds : StepFailed(id)
    \/ Tick
    \/ StartWorkers
    \/ StopWorkers

SpecTimer == Init /\ [][NextTimer]_vars

\* Saga.stepFinished and Saga.stepFailed are public and do not look at the
\* step's state: the worker that was invoked for a step calls back again after
\* the step has become Failed or RolledBack (in a saga without compensators)
StepFinishedLate(stepId, result) ==
    /\ calls[stepId] # <<>>
    /\ steps[stepId].status \in {"Failed", "RolledBack"}
    /\ sagaStatus' = tickSaga(sagaStatus, finished(steps, stepId, result))
    /\ steps' = tickSteps(sagaStatus, finished(steps, stepId, result))
    /\ last' = [op |-> "stepFinished", id |-> stepId]
    /\ UNCHANGED <<sagas, workers, queueMap, queueSize, ops, db, failSagaOnError, invoked, calls,
                   timerVars>>

StepFailedLate(stepId) ==
    /\ calls[stepId] # <<>>
    /\ steps[stepId].status \in {"Failed", "RolledBack"}
    /\ sagaStatus' = "Failed"
    /\ steps' = stepFailedSteps(steps, stepId)
    /\ last' = [op |-> "stepFailed", id |-> stepId]
    /\ UNCHANGED <<sagas, workers, queueMap, queueSize, ops, db, failSagaOnError, invoked, calls,
                   timerVars>>

NextLateCall ==
    \/ \E w \in WorkerNames : \E d \in DistinctSeqs(StepIds) : AddStep(w, d)
    \/ \E w \in WorkerNames : AddWorker(w)
    \/ StartOnce
    \/ \E id \in StepIds : \E r \in Results \cup {NoResult} : StepFinished(id, r)
    \/ \E id \in StepIds : StepFailed(id)
    \/ \E id \in StepIds : \E r \in Results \cup {NoResult} : StepFinishedLate(id, r)
    \/ \E id \in StepIds : StepFailedLate(id)
    \/ Tick

SpecLateCall == Init /\ [][NextLateCall]_vars

\* QueueManager.tick, lines 151-159: a read of the store made by the callback of
\* a tick rejects (the redis client rejects on an error of the connection).  The
\* callback ends there without a write; Promise.all at line 195 rejects, tick()
\* throws out of its await, and line 197 is not reached
StoreFails(i) ==
    /\ i \in DOMAIN pending
    /\ pending' = Remove(pending, i)
    /\ rejected' = TRUE
    /\ last' = [op |-> "storeFails", id |-> NoStep]
    /\ UNCHANGED <<sagaStatus, steps, sagas, workers, queueMap, queueSize, ops, db, failSagaOnError,
                   invoked, calls, tickLock, timers, pollingInterval, others>>

\* A saga without compensators whose workers succeed, over a store whose reads
\* may fail during a tick; the timer keeps firing, the callbacks of a tick and the
\* workers that were invoked run to their end
NextStore ==
    \/ \E w \in WorkerNames : \E d \in DistinctSeqs(StepIds) : AddStep(w, d)
    \/ \E w \in WorkerNames : AddWorker(w)
    \/ StartOnce
    \/ \E id \in StepIds : \E r \in Results : StepFinished(id, r)
    \/ TickBegin
    \/ \E i \in DOMAIN pending : TickSaga(i)
    \/ \E i \in DOMAIN pending : StoreFails(i)
    \/ TickEnd

SpecFairStore ==
    /\ Init
    /\ [][NextStore]_vars
    /\ WF_vars(TickBegin)
    /\ WF_vars(\E i \in DOMAIN pending : TickSaga(i) \/ StoreFails(i))
    /\ WF_vars(TickEnd)
    /\ WF_vars(\E id \in StepIds : \E r \in Results : StepFinished(id, r))

\* Saga.stepFinished(stepId, result) called by the invoked worker with a result
\* that has no JSON text.  It throws at line 70 when the check fails, and rejects
\* out of SagaStep.finished when client.set cannot write the record, in both cases
\* before anything is written; else it goes on as for any result
StepFinishedNotEncodable(stepId, result) ==
    /\ stepId \in invoked
    /\ last' = [op |-> "stepFinishedNotEncodable", id |-> stepId]
    /\ IF checkThrows(result) \/ stringifyThrows(result)
       THEN UNCHANGED <<sagaStatus, steps, invoked>>
       ELSE /\ invoked' = invoked \ {stepId}
            /\ sagaStatus' = tickSaga(sagaStatus, finished(steps, stepId, stored(result)))
            /\ steps' = tickSteps(sagaStatus, finished(steps, stepId, stored(result)))
    /\ UNCHANGED <<sagas, workers, queueMap, queueSize, ops, db, failSagaOnError, calls, timerVars>>

\* SagaStep.compensateWith called on a SagaStep object that was not created
CompensateWithUninitialized(workerName) ==
    /\ sagaStatus = "Created"
    /\ compensateWith(NoStep, workerName)

\* Saga.stepFinished(stepId, result) called once more for a step that a worker
\* has finished, with the result it has
StepFinishedAgain(stepId) ==
    /\ calls[stepId] # <<>>
    /\ steps[stepId].status = "Finished"
    /\ sagaStatus' = tickSaga(sagaStatus, finished(steps, stepId, steps[stepId].result))
    /\ steps' = tickSteps(sagaStatus, finished(steps, stepId, steps[stepId].result))
    /\ last' = [op |-> "stepFinishedAgain", id |-> stepId]
    /\ UNCHANGED <<sagas, workers, queueMap, queueSize, ops, db, failSagaOnError, invoked, calls,
                   timerVars>>

\* The life cycle of a saga, with calls of the public operations that the usual
\* life cycle does not make
NextCalls ==
    \/ \E id \in StepIds : StepFinishedAgain(id)
    \/ \E w \in WorkerNames : CompensateWithUninitialized(w)
    \/ \E w \in WorkerNames : \E d \in DistinctSeqs(StepIds) : AddStep(w, d)
    \/ \E id \in StepIds : \E w \in WorkerNames : CompensateWith(id, w)
    \/ \E w \in WorkerNames : AddWorker(w)
    \/ StartOnce
    \/ \E id \in StepIds : \E r \in Results \cup {NoResult} : StepFinished(id, r)
    \/ \E id \in StepIds : \E r \in NotEncodable : StepFinishedNotEncodable(id, r)
    \/ \E id \in StepIds : StepFailed(id)
    \/ Tick

SpecCalls == Init /\ [][NextCalls]_vars

\* A larger saga that fails and is compensated: up to MaxCascade steps, each run
\* by the worker w1 and depending on at most one earlier step, with compensators
BuildStep(dependsOn) ==
    /\ sagaStatus = "Created"
    /\ Len(steps) < MaxCascade
    /\ Len(dependsOn) <= 1
    /\ addStep("w1", dependsOn)

BuildCompensator(id) ==
    /\ sagaStatus = "Created"
    /\ Len(steps) < MaxCascade
    /\ steps[id].compensatorId = NoStep
    /\ ~ IsCompensator(steps, id)
    /\ compensateWith(id, "w1")

NextCascade ==
    \/ \E d \in DistinctSeqs(StepIds) : BuildStep(d)
    \/ \E id \in StepIds : BuildCompensator(id)
    \/ AddWorker("w1")
    \/ StartOnce
    \/ \E id \in StepIds : StepFinished(id, "r1")
    \/ \E id \in StepIds : StepFailed(id)
    \/ Tick

SpecCascade == Init /\ [][NextCascade]_vars

\* The life cycle of a saga over either version of the record layer
SpecCreate == InitCreate /\ [][NextStartOnce]_vars

\* Faulty variant of TickDropped: the firing that finds the lock taken resets it
TickDroppedUnlocks ==
    /\ timers > 0
    /\ tickSkipped
    /\ tickLock' = FALSE
    /\ last' = [op |-> "tickDropped", id |-> NoStep]
    /\ UNCHANGED <<sagaStatus, steps, sagas, workers, queueMap, queueSize, ops, db, failSagaOnError,
                   invoked, calls, pending, timers, pollingInterval, others, rejected>>

\* QueueManager.tick, lines 130-133: a firing of the timer that finds the lock
\* taken returns
TickDropped ==
    /\ timers > 0
    /\ tickSkipped
    /\ last' = [op |-> "tickDropped", id |-> NoStep]
    /\ UNCHANGED <<sagaStatus, steps, sagas, workers, queueMap, queueSize, ops, db, failSagaOnError,
                   invoked, calls, timerVars>>

\* The dispatcher's tick in its parts, with the firings of the timer that arrive
\* while a tick is in progress
NextFirings ==
    \/ \E w \in WorkerNames : \E d \in DistinctSeqs(StepIds) : AddStep(w, d)
    \/ \E id \in StepIds : \E w \in WorkerNames : CompensateWith(id, w)
    \/ \E w \in WorkerNames : AddWorker(w)
    \/ StartOnce
    \/ \E id \in StepIds : \E r \in Results : StepFinished(id, r)
    \/ \E id \in StepIds : StepFailed(id)
    \/ TickBegin
    \/ TickDropped
    \/ \E i \in DOMAIN pending : TickSaga(i)
    \/ TickEnd

SpecFirings == Init /\ [][NextFirings]_vars

\* ============================================ calls whose awaits interleave
\* A call on the saga is a chain of store operations with an await before each;
\* between two of them the store operations of other calls may run.  ops holds
\* one entry per call: the method (op), the store operation it does next (pc, or
\* "done" when the call has returned or thrown), its arguments (id, result, values)
\* and its local variables: the saga status read by tick (status), the step ids
\* still to enqueue or to roll back (todo), the step whose record is being
\* written (cur), the record read by update() (old), the dependencyArgs computed
\* by enqueueStep (args), the id returned by create (ret), thrown when it threw
Op(op, pc, id, result) ==
    [op |-> op, pc |-> pc, id |-> id, result |-> result, values |-> <<>>, status |-> "",
     todo |-> {}, cur |-> NoStep, old |-> <<>>, args |-> <<>>, ret |-> "", thrown |-> FALSE]

\* the call has returned: its local variables are gone
Done(o) == [Op(o.op, "done", o.id, o.result) EXCEPT !.ret = o.ret, !.thrown = o.thrown]

\* update(), lines 18-21 of helpers/db.ts: the record written from the one read
merged(oldValues, values) ==
    [f \in DOMAIN oldValues |-> IF f \in DOMAIN values THEN values[f] ELSE oldValues[f]]

\* the entry i of ops becomes o, and the step is recorded in last
Goto(i, o) ==
    /\ ops' = [ops EXCEPT ![i] = o]
    /\ last' = [op |-> ops[i].op \o ":" \o ops[i].pc, id |-> ops[i].id]

At(i, op, pc) == i \in DOMAIN ops /\ ops[i].op \in op /\ ops[i].pc = pc

\* the calls of a method that have not returned
Active(op) == {i \in DOMAIN ops : ops[i].op = op /\ ops[i].pc # "done"}

\* ---- create() in its store operations
\* the values of a new step record (SagaStep.createFromSaga, Saga.addStep)
newStep(workerName, dependsOn) ==
    [status |-> "Created", workerName |-> workerName, dependsOn |-> dependsOn,
     compensatorId |-> NoStep, result |-> NoResult, dependencyArgs |-> <<>>]

\* Saga.addStep(workerName, args, dependsOnSteps) up to the first await of
\* create(): with helpers/db.ts the uuid has been generated, with the meta table
\* the table's entry of the meta record has been asked for
AddStepCall(workerName, dependsOn) ==
    /\ sagaStatus = "Created"
    /\ Len(ops) < MaxOps
    /\ Len(steps) + Cardinality(Active("addStep")) < MaxSteps
    /\ ops' = Append(ops,
                     [Op("addStep", IF db.create = "uuid" THEN "set" ELSE "getMeta",
                         NoStep, NoResult)
                         EXCEPT !.values = newStep(workerName, dependsOn),
                                !.ret = IF db.create = "uuid" THEN uuid(db.uuids + 1) ELSE ""])
    /\ db' = IF db.create = "uuid" THEN [db EXCEPT !.uuids = @ + 1] ELSE db
    /\ last' = [op |-> "addStep:call", id |-> NoStep]
    /\ UNCHANGED <<sagaStatus, steps, sagas, workers, queueMap, queueSize, failSagaOnError,
                   invoked, calls, timerVars>>

\* create(), line 227: oldTableMeta is read
CreateGetMeta(i) ==
    /\ At(i, {"addStep"}, "getMeta")
    /\ Goto(i, [ops[i] EXCEPT !.pc = "setMeta", !.old = db.lastId])
    /\ UNCHANGED <<sagaStatus, steps, sagas, workers, queueMap, queueSize, db, failSagaOnError,
                   invoked, calls, timerVars>>

\* create(), lines 229-238: newTableMeta is written, and the id is its lastId
CreateSetMeta(i) ==
    /\ At(i, {"addStep"}, "setMeta")
    /\ db' = [db EXCEPT !.lastId = lastId(ops[i].old)]
    /\ Goto(i, [ops[i] EXCEPT !.pc = "set", !.old = <<>>, !.cur = lastId(ops[i].old),
                              !.ret = toString(lastId(ops[i].old))])
    /\ UNCHANGED <<sagaStatus, steps, sagas, workers, queueMap, queueSize, failSagaOnError,
                   invoked, calls, timerVars>>

\* the place in the table of the record that a create() in progress stores
keyOfOp(st, d, o) == IF d.create = "uuid" THEN Len(st) + 1 ELSE o.cur

\* create(), line 246 (helpers/db.ts, line 12): the record {id, ...values} is set
\* under its id, and create returns.  The table is a sequence: a record whose id
\* is lastId is stored once the records of the smaller ids are
CreateSet(i) ==
    /\ At(i, {"addStep"}, "set")
    /\ keyOfOp(steps, db, ops[i]) <= Len(steps) + 1
    /\ steps' = set(steps, keyOfOp(steps, db, ops[i]), [id |-> ops[i].ret] @@ ops[i].values)
    /\ calls' = IF keyOfOp(steps, db, ops[i]) > Len(steps) THEN Append(calls, <<>>) ELSE calls
    /\ Goto(i, Done(ops[i]))
    /\ UNCHANGED <<sagaStatus, sagas, workers, queueMap, queueSize, db, failSagaOnError,
                   invoked, timerVars>>

\* addStep calls that the host does not await one after the other, over either
\* version of create()
NextCreates ==
    \/ \E w \in WorkerNames : \E d \in DistinctSeqs(StepIds) : AddStepCall(w, d)
    \/ \E i \in DOMAIN ops : CreateGetMeta(i)
    \/ \E i \in DOMAIN ops : CreateSetMeta(i)
    \/ \E i \in DOMAIN ops : CreateSet(i)

SpecCreates == InitCreate /\ [][NextCreates]_vars

\* ---- the methods of the entities called on their own
\* Saga.tick, lines 158-200, run on its own
SagaTick ==
    /\ sagaStatus' = tickSaga(sagaStatus, steps)
    /\ steps' = tickSteps(sagaStatus, steps)
    /\ last' = [op |-> "sagaTick", id |-> NoStep]
    /\ UNCHANGED <<sagas, workers, queueMap, queueSize, ops, db, failSagaOnError, invoked,
                   calls, timerVars>>

\* SagaStep.enqueueStep, lines 100-125, called on a step that has not been
\* enqueued yet; the call throws when errorDependency finds a dependency
EnqueueStep(id) ==
    /\ steps[id].status \in {"Created", "WaitingForCompensation"}
    /\ steps' = enqueueStep(steps, id)
    /\ last' = [op |-> IF errorDependency(steps, id) THEN "enqueueStepThrows" ELSE "enqueueStep",
                id |-> id]
    /\ UNCHANGED <<sagaStatus, sagas, workers, queueMap, queueSize, ops, db, failSagaOnError,
                   invoked, calls, timerVars>>

\* The life cycle of a saga, with Saga.tick and SagaStep.enqueueStep also called
\* directly
NextDirect ==
    \/ \E w \in WorkerNames : \E d \in DistinctSeqs(StepIds) : AddStep(w, d)
    \/ \E id \in StepIds : \E w \in WorkerNames : CompensateWith(id, w)
    \/ \E w \in WorkerNames : AddWorker(w)
    \/ StartOnce
    \/ \E id \in StepIds : \E r \in Results \cup {NoResult} : StepFinished(id, r)
    \/ \E id \in StepIds : StepFailed(id)
    \/ Tick
    \/ SagaTick
    \/ \E id \in StepIds : EnqueueStep(id)

SpecDirect == Init /\ [][NextDirect]_vars

\* ---- Saga.stepFinished and Saga.stepFailed in their store operations
\* what a step of a call leaves alone besides the saga, the steps and the calls
OpFrame ==
    UNCHANGED <<sagas, workers, queueMap, queueSize, db, failSagaOnError, calls, timerVars>>

\* Faulty variant of Resume: the call returns without running its fan-out
ResumeNever(o) == Done(o)

\* the call goes on with the next step of its fan-out (Promise.all over the
\* steps to enqueue or to roll back, taken one after the other in any order), or
\* returns when none is left
Resume(o) ==
    IF o.todo = {} THEN Done(o)
    ELSE [o EXCEPT !.pc = IF o.op = "stepFinished" THEN "tick.enqueue" ELSE "rollback.get",
                   !.cur = NoStep, !.old = <<>>, !.args = <<>>]

\* Saga.stepFinished(stepId, result), called by the worker invoked for stepId,
\* lines 62-74: the result is checked and the step instantiated from its record
StepFinishedCall(stepId, result) ==
    /\ stepId \in invoked
    /\ Len(ops) < MaxOps
    /\ invoked' = invoked \ {stepId}
    /\ ops' = Append(ops, Op("stepFinished", "finished.get", stepId, result))
    /\ last' = [op |-> "stepFinished:call", id |-> stepId]
    /\ UNCHANGED <<sagaStatus, steps>>
    /\ OpFrame

\* SagaStep.finished, update(): the record is read ...
FinishedGet(i) ==
    /\ At(i, {"stepFinished"}, "finished.get")
    /\ Goto(i, [ops[i] EXCEPT !.pc = "finished.set", !.old = steps[ops[i].id]])
    /\ UNCHANGED <<sagaStatus, steps, invoked>>
    /\ OpFrame

\* ... and written back with the result and Finished
FinishedSet(i) ==
    /\ At(i, {"stepFinished"}, "finished.set")
    /\ steps' = [steps EXCEPT ![ops[i].id] =
                    merged(ops[i].old, [result |-> ops[i].result, status |-> "Finished"])]
    /\ Goto(i, [ops[i] EXCEPT !.pc = "tick.status", !.old = <<>>])
    /\ UNCHANGED <<sagaStatus, invoked>>
    /\ OpFrame

\* Saga.tick, lines 159-162: the saga's status is read; the tick returns unless
\* it is Running
TickGetValues(i) ==
    /\ At(i, {"stepFinished"}, "tick.status")
    /\ Goto(i, IF sagaStatus # "Running" THEN Done(ops[i])
               ELSE [ops[i] EXCEPT !.pc = "tick.steps", !.status = sagaStatus])
    /\ UNCHANGED <<sagaStatus, steps, invoked>>
    /\ OpFrame

\* Saga.tick, lines 163-191: the steps are read; with no Created step the saga is
\* to be written Finished, else the Created steps whose dependencies are all
\* Finished are to be enqueued
TickGetAllSteps(i) ==
    /\ At(i, {"stepFinished"}, "tick.steps")
    /\ Goto(i, IF unqueuedSteps(steps) = {} THEN [ops[i] EXCEPT !.pc = "tick.finish"]
               ELSE Resume([ops[i] EXCEPT !.todo = stepsToExecute(steps)]))
    /\ UNCHANGED <<sagaStatus, steps, invoked>>
    /\ OpFrame

\* Saga.tick, lines 167-171: update(saga, {status: Finished})
TickFinish(i) ==
    /\ At(i, {"stepFinished"}, "tick.finish")
    /\ sagaStatus' = "Finished"
    /\ Goto(i, Done(ops[i]))
    /\ UNCHANGED <<steps, invoked>>
    /\ OpFrame

\* SagaStep.enqueueStep, lines 107-119, for a step k of the tick's fan-out or for
\* the compensator of the step just rolled back: the dependencies are read; the
\* call throws on one that is neither Finished nor RolledBack
EnqueueStepGetDependencies(i, k) ==
    /\ \/ At(i, {"stepFinished"}, "tick.enqueue") /\ k \in ops[i].todo
       \/ At(i, {"stepFailed"}, "rollback.enqueue") /\ k = ops[i].cur
    /\ Goto(i, IF errorDependency(steps, k)
               THEN Resume([ops[i] EXCEPT !.todo = @ \ {k}, !.thrown = TRUE])
               ELSE [ops[i] EXCEPT !.pc = "enqueue.get", !.todo = @ \ {k}, !.cur = k,
                                   !.args = [d \in DOMAIN steps[k].dependsOn |->
                                                steps[steps[k].dependsOn[d]].result]])
    /\ UNCHANGED <<sagaStatus, steps, invoked>>
    /\ OpFrame

\* SagaStep.enqueueStep, lines 121-124, update(): the record is read ...
EnqueueStepGet(i) ==
    /\ At(i, {"stepFinished", "stepFailed"}, "enqueue.get")
    /\ Goto(i, [ops[i] EXCEPT !.pc = "enqueue.set", !.old = steps[ops[i].cur]])
    /\ UNCHANGED <<sagaStatus, steps, invoked>>
    /\ OpFrame

\* ... and written back with the dependencyArgs and Queued
EnqueueStepSet(i) ==
    /\ At(i, {"stepFinished", "stepFailed"}, "enqueue.set")
    /\ steps' = [steps EXCEPT ![ops[i].cur] =
                    merged(ops[i].old, [dependencyArgs |-> ops[i].args, status |-> "Queued"])]
    /\ Goto(i, Resume(ops[i]))
    /\ UNCHANGED <<sagaStatus, invoked>>
    /\ OpFrame

\* Saga.stepFailed(stepId), called by the worker invoked for stepId
StepFailedCall(stepId) ==
    /\ stepId \in invoked
    /\ Len(ops) < MaxOps
    /\ invoked' = invoked \ {stepId}
    /\ ops' = Append(ops, Op("stepFailed", "failed.saga", stepId, NoResult))
    /\ last' = [op |-> "stepFailed:call", id |-> stepId]
    /\ UNCHANGED <<sagaStatus, steps>>
    /\ OpFrame

\* Saga.stepFailed, lines 97-99: update(saga, {status: Failed})
StepFailedUpdateSaga(i) ==
    /\ At(i, {"stepFailed"}, "failed.saga")
    /\ sagaStatus' = "Failed"
    /\ Goto(i, [ops[i] EXCEPT !.pc = "failed.steps"])
    /\ UNCHANGED <<steps, invoked>>
    /\ OpFrame

\* Saga.stepFailed, lines 101-104: the steps are read, and those Finished are the
\* ones to roll back
StepFailedGetAllSteps(i) ==
    /\ At(i, {"stepFailed"}, "failed.steps")
    /\ Goto(i, [ops[i] EXCEPT !.pc = "fail.get", !.todo = stepsToRollback(steps)])
    /\ UNCHANGED <<sagaStatus, steps, invoked>>
    /\ OpFrame

\* SagaStep.fail, update(): the record of the failed step is read ...
FailGet(i) ==
    /\ At(i, {"stepFailed"}, "fail.get")
    /\ Goto(i, [ops[i] EXCEPT !.pc = "fail.set", !.old = steps[ops[i].id]])
    /\ UNCHANGED <<sagaStatus, steps, invoked>>
    /\ OpFrame

\* ... and written back Failed
FailSet(i) ==
    /\ At(i, {"stepFailed"}, "fail.set")
    /\ steps' = [steps EXCEPT ![ops[i].id] = merged(ops[i].old, [status |-> "Failed"])]
    /\ Goto(i, Resume(ops[i]))
    /\ UNCHANGED <<sagaStatus, invoked>>
    /\ OpFrame

\* SagaStep.rollback, lines 171-175, for a step k of the fan-out: the record is
\* read (its compensatorId, and the old values of update()) ...
RollbackGet(i, k) ==
    /\ At(i, {"stepFailed"}, "rollback.get")
    /\ k \in ops[i].todo
    /\ Goto(i, [ops[i] EXCEPT !.pc = "rollback.set", !.todo = @ \ {k}, !.cur = k,
                              !.old = steps[k]])
    /\ UNCHANGED <<sagaStatus, steps, invoked>>
    /\ OpFrame

\* ... and written back RolledBack; the compensator, if any, is enqueued next
RollbackSet(i) ==
    /\ At(i, {"stepFailed"}, "rollback.set")
    /\ steps' = [steps EXCEPT ![ops[i].cur] = merged(ops[i].old, [status |-> "RolledBack"])]
    /\ Goto(i, IF ops[i].old.compensatorId # NoStep
               THEN [ops[i] EXCEPT !.pc = "rollback.enqueue", !.old = <<>>,
                                   !.cur = ops[i].old.compensatorId]
               ELSE Resume(ops[i]))
    /\ UNCHANGED <<sagaStatus, invoked>>
    /\ OpFrame

\* A saga of up to MaxCascade steps with compensators, started with its workers
\* registered; the workers' calls of stepFinished and stepFailed, up to MaxOps
\* of them, run with their store operations interleaved, between the ticks of
\* the dispatcher
NextFailing ==
    \/ \E d \in DistinctSeqs(StepIds) : BuildStep(d)
    \/ \E id \in StepIds : BuildCompensator(id)
    \/ \E w \in WorkerNames : AddWorker(w)
    \/ StartRegistered
    \/ Tick
    \/ \E id \in StepIds : StepFinishedCall(id, "r1")
    \/ \E id \in StepIds : StepFailedCall(id)
    \/ \E i \in DOMAIN ops : FinishedGet(i)
    \/ \E i \in DOMAIN ops : FinishedSet(i)
    \/ \E i \in DOMAIN ops : TickGetValues(i)
    \/ \E i \in DOMAIN ops : TickGetAllSteps(i)
    \/ \E i \in DOMAIN ops : TickFinish(i)
    \/ \E i \in DOMAIN ops : StepFailedUpdateSaga(i)
    \/ \E i \in DOMAIN ops : StepFailedGetAllSteps(i)
    \/ \E i \in DOMAIN ops : FailGet(i)
    \/ \E i \in DOMAIN ops : FailSet(i)
    \/ \E i \in DOMAIN ops : \E k \in StepIds : RollbackGet(i, k)
    \/ \E i \in DOMAIN ops : RollbackSet(i)
    \/ \E i \in DOMAIN ops : \E k \in StepIds : EnqueueStepGetDependencies(i, k)
    \/ \E i \in DOMAIN ops : EnqueueStepGet(i)
    \/ \E i \in DOMAIN ops : EnqueueStepSet(i)

SpecFailing == Init /\ [][NextFailing]_vars

\* Saga.stepFailed(stepId) called by the host for a step that is Finished
StepFailedFinished(stepId) ==
    /\ steps[stepId].status = "Finished"
    /\ sagaStatus' = "Failed"
    /\ steps' = stepFailedSteps(steps, stepId)
    /\ last' = [op |-> "stepFailedFinished", id |-> stepId]
    /\ UNCHANGED <<sagas, workers, queueMap, queueSize, ops, db, failSagaOnError, invoked,
                   calls, timerVars>>

\* The life cycle of a saga, with stepFailed also called for steps that finished
NextFailFinished ==
    \/ \E w \in WorkerNames : \E d \in DistinctSeqs(StepIds) : AddStep(w, d)
    \/ \E id \in StepIds : \E w \in WorkerNames : CompensateWith(id, w)
    \/ \E w \in WorkerNames : AddWorker(w)
    \/ StartOnce
    \/ \E id \in StepIds : \E r \in Results \cup {NoResult} : StepFinished(id, r)
    \/ \E id \in StepIds : StepFailed(id)
    \/ \E id \in StepIds : StepFailedFinished(id)
    \/ Tick

SpecFailFinished == Init /\ [][NextFailFinished]_vars

\* Two sagas registered with one dispatcher, over either version of create(): the
\* saga, of independent steps, and the second one
NextSharedIds ==
    \/ \E w \in WorkerNames : AddStep(w, <<>>)
    \/ \E w \in WorkerNames : AddWorker(w)
    \/ StartOnce
    \/ \E id \in StepIds : StepFinished(id, "r1")
    \/ OthersEnqueue
    \/ \E i \in DOMAIN others : OthersFinished(i)
    \/ TickBegin
    \/ \E i \in DOMAIN pending : TickSaga(i)
    \/ \E i \in DOMAIN pending : TickOthers(i)
    \/ TickEnd

SpecSharedIds == InitCreate /\ [][NextSharedIds]_vars

\* A saga without compensators whose steps are run by w1 and succeed, started
\* with its workers registered; the workers' calls of stepFinished run on their
\* own or, up to MaxOps of them, with their store operations interleaved,
\* between the ticks of the dispatcher
NextFinishing ==
    \/ \E d \in DistinctSeqs(StepIds) : AddStep("w1", d)
    \/ \E w \in WorkerNames : AddWorker(w)
    \/ StartRegistered
    \/ Tick
    \/ \E id \in StepIds : \E r \in Results \cup {NoResult} : StepFinished(id, r)
    \/ \E id \in StepIds : \E r \in Results \cup {NoResult} : StepFinishedCall(id, r)
    \/ \E i \in DOMAIN ops : FinishedGet(i)
    \/ \E i \in DOMAIN ops : FinishedSet(i)
    \/ \E i \in DOMAIN ops : TickGetValues(i)
    \/ \E i \in DOMAIN ops : TickGetAllSteps(i)
    \/ \E i \in DOMAIN ops : TickFinish(i)
    \/ \E i \in DOMAIN ops : \E k \in StepIds : EnqueueStepGetDependencies(i, k)
    \/ \E i \in DOMAIN ops : EnqueueStepGet(i)
    \/ \E i \in DOMAIN ops : EnqueueStepSet(i)

SpecFinishing == Init /\ [][NextFinishing]_vars

\* QueueManager.tick, lines 151-159: the callback reads the saga record first and
\* the step records afterwards, and other calls may write in between
TickGetSteps(i) ==
    /\ i \in DOMAIN pending
    /\ pending[i].saga = "self"
    /\ pending[i].steps # steps
    /\ pending' = [pending EXCEPT ![i].steps = steps]
    /\ last' = [op |-> "tickGetSteps", id |-> NoStep]
    /\ UNCHANGED <<sagaStatus, steps, sagas, workers, queueMap, queueSize, ops, db,
                   failSagaOnError, invoked, calls, tickLock, timers, pollingInterval,
                   rejected, others>>

\* A saga of up to MaxCascade steps with compensators, started with its workers
\* registered; the workers' calls of stepFinished run on their own, their calls
\* of stepFailed, up to MaxOps of them, with their store operations interleaved,
\* between and during the ticks of the dispatcher
NextRollbacks ==
    \/ \E d \in DistinctSeqs(StepIds) : BuildStep(d)
    \/ \E id \in StepIds : BuildCompensator(id)
    \/ \E w \in WorkerNames : AddWorker(w)
    \/ StartRegistered
    \/ TickBegin
    \/ \E i \in DOMAIN pending : TickGetSteps(i)
    \/ \E i \in DOMAIN pending : TickSaga(i)
    \/ TickEnd
    \/ \E id \in StepIds : StepFinished(id, "r1")
    \/ \E id \in StepIds : StepFailedCall(id)
    \/ \E i \in DOMAIN ops : StepFailedUpdateSaga(i)
    \/ \E i \in DOMAIN ops : StepFailedGetAllSteps(i)
    \/ \E i \in DOMAIN ops : FailGet(i)
    \/ \E i \in DOMAIN ops : FailSet(i)
    \/ \E i \in DOMAIN ops : \E k \in StepIds : RollbackGet(i, k)
    \/ \E i \in DOMAIN ops : RollbackSet(i)
    \/ \E i \in DOMAIN ops : \E k \in StepIds : EnqueueStepGetDependencies(i, k)
    \/ \E i \in DOMAIN ops : EnqueueStepGet(i)
    \/ \E i \in DOMAIN ops : EnqueueStepSet(i)

\* the dispatcher was built with room for MaxQueueSize steps and without
\* failSagaOnError (no worker is missing in these runs)
InitRollbacks == Init /\ queueSize = MaxQueueSize /\ ~ failSagaOnError

SpecRollbacks == InitRollbacks /\ [][NextRollbacks]_vars

\* ================================================================ claims
\* the status of the steps a step depends on, in a given step table
DependsOnStatuses(st, id) == {st[st[id].dependsOn[i]].status : i \in DOMAIN st[id].dependsOn}

\* C1: Saga.tick on a Running saga promotes a step from Created to Queued if and
\* only if its dependsOn is empty or every step it names is Finished.  Only-if:
\* every step of the program that takes a step from Created to Queued is a run of
\* Saga.tick (inside start or stepFinished) on a Running saga, and all the
\* dependencies of the promoted step are Finished.  If: when the saga is Running
\* (a tick has returned), no step whose dependencies are all Finished is still
\* Created; so after start() the steps without dependencies are Queued and the
\* steps with an unfinished dependency are Created.
C1_NoReadyStepLeft ==
    sagaStatus = "Running" =>
        \A id \in StepIds :
            steps[id].status = "Created" => DependsOnStatuses(steps, id) \ {"Finished"} # {}

C1_PromotesOnlyReady ==
    \A id \in StepIds :
        (steps[id].status = "Created" /\ steps'[id].status = "Queued") =>
            /\ last'.op \in {"start", "stepFinished"}
            /\ sagaStatus' = "Running"
            /\ DependsOnStatuses(steps', id) \subseteq {"Finished"}

C1_TickPromotesReadySteps == [](C1_NoReadyStepLeft) /\ [][C1_PromotesOnlyReady]_vars

\* C1 witness: stepFinished has just promoted a step that has a dependency while
\* another step, whose dependency is not Finished, is still Created
C1_Witness ==
    /\ last.op = "stepFinished"
    /\ sagaStatus = "Running"
    /\ \E id \in StepIds : steps[id].status = "Queued" /\ steps[id].dependsOn # <<>>
    /\ \E id \in StepIds : steps[id].status = "Created" /\ steps[id].dependsOn # <<>>

\* C2: in every reachable state, every dependency of a Queued, Running or
\* Finished step is Finished or RolledBack
C2_DependenciesSatisfied ==
    \A id \in StepIds :
        steps[id].status \in {"Queued", "Running", "Finished"} =>
            DependsOnStatuses(steps, id) \subseteq {"Finished", "RolledBack"}

\* C2 witness: a step that was enqueued and is still Queued or Running after the
\* failure cascade rolled its dependency back
C2_Witness ==
    \E id \in StepIds :
        /\ steps[id].status \in {"Queued", "Running"}
        /\ ~ IsCompensator(steps, id)
        /\ "RolledBack" \in DependsOnStatuses(steps, id)

\* C3: whenever a step becomes Queued, the dependencyArgs written with it are the
\* results of its dependsOn steps, position by position in the declared order
\* (an empty list when it has no dependencies)
C3_DependencyArgsAtEnqueue ==
    \A id \in StepIds :
        (steps[id].status # "Queued" /\ steps'[id].status = "Queued") =>
            /\ Len(steps'[id].dependencyArgs) = Len(steps[id].dependsOn)
            /\ \A i \in DOMAIN steps[id].dependsOn :
                   steps'[id].dependencyArgs[i] = steps'[steps[id].dependsOn[i]].result

C3_DependencyArgsInDeclaredOrder == [][C3_DependencyArgsAtEnqueue]_vars

\* C3 witness: a Queued step that names its dependencies against their creation
\* order (and so against the order they could be dispatched in) and holds two
\* different results
C3_Witness ==
    \E id \in StepIds :
        /\ steps[id].status = "Queued"
        /\ Len(steps[id].dependsOn) = 2
        /\ steps[id].dependsOn[1] > steps[id].dependsOn[2]
        /\ steps[id].dependencyArgs[1] # steps[id].dependencyArgs[2]

\* C4: the saga's status changes to Finished only in a state where every step
\* that is not a compensator is Finished and every compensator is
\* WaitingForCompensation or Finished
C4_AllStepsDone(st) ==
    \A id \in DOMAIN st :
        IF IsCompensator(st, id)
        THEN st[id].status \in {"WaitingForCompensation", "Finished"}
        ELSE st[id].status = "Finished"

C4_BecomesFinished ==
    (sagaStatus # "Finished" /\ sagaStatus' = "Finished") => C4_AllStepsDone(steps')

C4_FinishedOnlyWhenAllStepsDone == [][C4_BecomesFinished]_vars

\* C5: once the saga is started with all its workers registered, and every
\* invoked worker calls stepFinished, then under fair dispatcher ticks and any
\* capacity every step is dispatched and becomes Finished, and the saga becomes
\* Finished
C5_Started == sagaStatus = "Running" /\ \A id \in StepIds : steps[id].workerName \in workers

C5_Completed == sagaStatus = "Finished" /\ \A id \in StepIds : steps[id].status = "Finished"

C5_EveryStepEventuallyFinished == C5_Started ~> C5_Completed

\* C6: when stepFailed(stepId) returns, for a step that was not Finished when it
\* was called: the saga is Failed, the named step is Failed, and every step that
\* was Finished is RolledBack
C6_StepFailed ==
    (last'.op = "stepFailed" /\ steps[last'.id].status # "Finished") =>
        /\ sagaStatus' = "Failed"
        /\ steps'[last'.id].status = "Failed"
        /\ \A id \in StepIds : steps[id].status = "Finished" => steps'[id].status = "RolledBack"

C6_StepFailedCascade == [][C6_StepFailed]_vars

\* C6 witness: stepFailed has returned, the named step is Failed and a step that
\* had finished is RolledBack
C6_Witness ==
    /\ last.op = "stepFailed"
    /\ sagaStatus = "Failed"
    /\ steps[last.id].status = "Failed"
    /\ \E id \in StepIds : steps[id].status = "RolledBack"

\* C7: when the failure cascade rolls back a Finished step that has a
\* compensator, the compensator goes from WaitingForCompensation to Queued and
\* its dependencyArgs is the one-element list of the rolled-back step's result;
\* rolling back a step without a compensator changes no other step: all that
\* stepFailed changes is the named step, the steps that were Finished and the
\* compensators of those
C7_Rollback ==
    /\ \A id \in StepIds :
           (steps[id].status = "Finished" /\ steps'[id].status = "RolledBack"
                /\ steps[id].compensatorId # NoStep) =>
               /\ steps[steps[id].compensatorId].status = "WaitingForCompensation"
               /\ steps'[steps[id].compensatorId].status = "Queued"
               /\ steps'[steps[id].compensatorId].dependencyArgs = <<steps[id].result>>
    /\ last'.op = "stepFailed" =>
           \A u \in StepIds :
               steps'[u] # steps[u] =>
                   \/ u = last'.id
                   \/ steps[u].status = "Finished"
                   \/ \E id \in StepIds : steps[id].status = "Finished"
                                           /\ steps[id].compensatorId = u

C7_RollbackEnqueuesCompensator == [][C7_Rollback]_vars

\* C7 witness: a rolled-back step whose compensator is Queued with the step's
\* result as its only dependency argument
C7_Witness ==
    \E id \in StepIds :
        /\ steps[id].status = "RolledBack"
        /\ steps[id].result \in Results
        /\ steps[id].compensatorId # NoStep
        /\ steps[steps[id].compensatorId].status = "Queued"
        /\ steps[steps[id].compensatorId].dependencyArgs = <<steps[id].result>>

\* C8, the part about stepFailed itself: stepFailed(stepId) leaves unchanged the
\* status of every step other than the named one that was not Finished when the
\* steps were enumerated (Created, Queued and Running siblings, and the
\* compensators whose parent was not Finished)
C8_Untouched(u) ==
    /\ u # last'.id
    /\ steps[u].status # "Finished"
    /\ ~ \E id \in StepIds : steps[id].status = "Finished" /\ steps[id].compensatorId = u

C8_Frame ==
    last'.op = "stepFailed" =>
        \A u \in StepIds : C8_Untouched(u) => steps'[u].status = steps[u].status

C8_StepFailedKeepsOtherSteps == [][C8_Frame]_vars

\* stepFailed has returned and left a Queued sibling and a Created sibling as
\* they were
C8_FrameReached ==
    /\ last.op = "stepFailed"
    /\ \E u \in StepIds \ {last.id} : steps[u].status = "Queued" /\ ~ IsCompensator(steps, u)
    /\ \E u \in StepIds \ {last.id} : steps[u].status = "Created"

\* C8: stepFailed(stepId) leaves unchanged the status of every step other than
\* the named one that was not Finished when the steps were enumerated, and those
\* steps stay frozen in their status afterwards: once the saga is Failed, a
\* Created, Queued or Running step that is not a compensator keeps its status (a
\* Queued sibling is not dispatched)
C8_Frozen ==
    sagaStatus = "Failed" =>
        \A u \in StepIds :
            (/\ ~ IsCompensator(steps, u)
             /\ steps[u].status \in {"Created", "Queued", "Running"}) =>
                steps'[u].status = steps[u].status

C8_SiblingsStayFrozen == [][C8_Frame /\ C8_Frozen]_vars

\* C9: once the saga's status is Failed, no step other than a compensator
\* becomes Finished
C9_NoFinishAfterFailure ==
    sagaStatus = "Failed" =>
        \A id \in StepIds :
            (~ IsCompensator(steps, id) /\ steps[id].status # "Finished") =>
                steps'[id].status # "Finished"

C9_NoStepFinishesAfterFailure == [][C9_NoFinishAfterFailure]_vars

\* C10: once the saga's status is Finished or Failed it is never Running again
C10_StaysTerminal == sagaStatus \in {"Finished", "Failed"} => sagaStatus' # "Running"

C10_TerminalNeverRunning == [][C10_StaysTerminal]_vars

\* C11 (as amended): every change of a step's persisted status is one of
\* Created->Queued, WaitingForCompensation->Queued, Queued->Running,
\* Running->Finished, Running->Failed, Finished->RolledBack, or Queued->Failed
\* (the dispatcher failing a Queued step whose worker is not registered), under
\* any interleaving of the saga's operations with the parts of a tick
C11_Listed ==
    {<<"Created", "Queued">>, <<"WaitingForCompensation", "Queued">>, <<"Queued", "Running">>,
     <<"Running", "Finished">>, <<"Running", "Failed">>, <<"Finished", "RolledBack">>}

C11_Changes == {<<steps[id].status, steps'[id].status>> : id \in StepIds} \ {<<x, x>> : x \in SagaStepStatus}

C11_ListedOrUnknownWorker == C11_Changes \subseteq C11_Listed \cup {<<"Queued", "Failed">>}

C11_StatusTransitions == [][C11_ListedOrUnknownWorker]_vars

\* C11 witness: the dispatcher has failed a Queued step, and with it the saga,
\* a Finished step was rolled back and its compensator enqueued
C11_Witness ==
    /\ last.op = "tick"
    /\ \E id \in StepIds : steps[id].status = "Failed" /\ calls[id] = <<>>
    /\ \E id \in StepIds :
           /\ steps[id].status = "RolledBack"
           /\ steps[id].compensatorId # NoStep
           /\ steps[steps[id].compensatorId].status = "Queued"

\* C11 as claimed: only the six listed transitions occur
C11_OnlyListed == C11_Changes \subseteq C11_Listed

C11_OnlyListedTransitions == [][C11_OnlyListed]_vars

\* C12: Failed and RolledBack are terminal: once a step's status is Failed or
\* RolledBack, no operation (stepFinished or stepFailed on it or on another step,
\* a rollback, a dispatcher tick) changes it
C12_Terminal ==
    \A id \in StepIds :
        steps[id].status \in {"Failed", "RolledBack"} => steps'[id].status = steps[id].status

C12_FailedRolledBackTerminal == [][C12_Terminal]_vars

\* a Failed step and a RolledBack step after a later stepFailed on another step
\* and a later tick
C12_Reached ==
    /\ last.op = "tick"
    /\ sagaStatus = "Failed"
    /\ \E id \in StepIds : steps[id].status = "Failed"
    /\ \E id \in StepIds : steps[id].status = "RolledBack"

\* C13: in every reachable state, the middle of a tick included, the number of
\* in-flight slots (getTotalRunning) is at most queueSize, over the steps of all
\* registered sagas together
getTotalRunning == Cardinality(queueMap)

C13_InFlightWithinCapacity == getTotalRunning <= queueSize

\* C13 witness: in the middle of a tick, one saga's callback has run and the
\* other's has not; the slots are all taken, by steps of both sagas, and a
\* Queued step of each saga is left waiting
C13_Witness ==
    /\ tickLock /\ pending # <<>>
    /\ getTotalRunning = queueSize
    /\ \E id \in StepIds : id \in queueMap
    /\ \E i \in DOMAIN others : MaxSteps + i \in queueMap
    /\ \E id \in StepIds : id \notin queueMap /\ steps[id].status = "Queued"
    /\ \E i \in DOMAIN others : MaxSteps + i \notin queueMap /\ others[i] = "Queued"

\* the steps for which this step of the program calls worker.run
C14_Invoked == {id \in StepIds : Len(calls'[id]) > Len(calls[id])}

\* C14: a worker is invoked only for a step whose persisted status is Queued and
\* that holds its in-flight slot from this tick on, not as a Running step from
\* an earlier one; and over the life of a dispatcher no step has its worker
\* invoked twice, whatever runs between a tick's reads and its step loop and
\* however often the timer fires meanwhile
C14_InvokedWereQueued ==
    \A id \in C14_Invoked :
        /\ steps[id].status = "Queued"
        /\ steps'[id].status = "Running"
        /\ id \in queueMap'
        /\ id \notin invoked
        /\ Len(calls'[id]) = Len(calls[id]) + 1

C14_InvokedOnce == \A id \in StepIds : Len(calls[id]) <= 1

C14_SingleDispatch == [](C14_InvokedOnce) /\ [][C14_InvokedWereQueued]_vars

\* C14 witness: a tick has run its step loop, still holds the lock, and has
\* dispatched a step; another step was dispatched by an earlier tick and has
\* finished, and a third one is Queued and waits for a later tick
C14_Witness ==
    /\ last.op = "tick"
    /\ tickLock
    /\ \E id \in StepIds : steps[id].status = "Running" /\ Len(calls[id]) = 1
    /\ \E id \in StepIds : steps[id].status = "Finished" /\ Len(calls[id]) = 1
    /\ \E id \in StepIds : steps[id].status = "Queued" /\ id \notin queueMap

\* C15: when the dispatcher invokes the worker of a step, the step's persisted
\* status is Running, and the worker receives the dependencyArgs recorded at
\* enqueue: the results of the steps it depends on, in order, the empty list when
\* it depends on none
C15_Invocation ==
    \A id \in C14_Invoked :
        /\ steps'[id].status = "Running"
        /\ calls'[id][Len(calls'[id])] = steps[id].dependencyArgs
        /\ calls'[id][Len(calls'[id])] =
               [i \in DOMAIN steps[id].dependsOn |-> steps[steps[id].dependsOn[i]].result]

C15_RunningBeforeWorker == [][C15_Invocation]_vars

\* C15 witness: the tick has ended and released its lock while the worker it
\* invoked, which received the result of the step's dependency, has not called
\* back
C15_Witness ==
    /\ last.op = "tickEnd"
    /\ ~ tickLock
    /\ \E id \in invoked :
           /\ steps[id].status = "Running"
           /\ calls[id] = <<steps[id].dependencyArgs>>
           /\ \E r \in Results : steps[id].dependencyArgs = <<r>>

\* the Queued steps without a registered worker that this tick hands to runStep
C16_UnknownWorker ==
    {id \in StepIds : /\ last'.op = "tick"
                      /\ steps[id].status = "Queued"
                      /\ steps[id].workerName \notin workers
                      /\ id \in queueMap' \ queueMap}

C16_FailsSaga ==
    (failSagaOnError /\ C16_UnknownWorker # {}) =>
        /\ sagaStatus' = "Failed"
        /\ \A id \in C16_UnknownWorker :
               steps'[id].status = "Failed" /\ calls'[id] = calls[id] /\ id \notin invoked'
        /\ \A id \in StepIds : steps[id].status = "Finished" => steps'[id].status = "RolledBack"
        /\ \A id \in StepIds :
               (steps[id].status = "Finished" /\ steps[id].compensatorId # NoStep) =>
                   steps'[steps[id].compensatorId].status = "Queued"

\* the slot claimed for a step that the dispatcher failed for its missing worker
C16_SlotHeld(id) ==
    id \in StepIds /\ id \in queueMap /\ steps[id].status = "Failed" /\ calls[id] = <<>>

\* C16: with failSagaOnError, when a tick finds a Queued step whose worker is not
\* registered, no worker is invoked, the step becomes Failed, the saga becomes
\* Failed with its Finished steps rolled back and their compensators enqueued,
\* and the slot claimed for the step is released (by a later tick)
C16_UnknownWorkerFailsSaga ==
    /\ [][C16_FailsSaga]_vars
    /\ \A id \in 1..MaxSteps : C16_SlotHeld(id) ~> ~ C16_SlotHeld(id)

\* the part of C16 about the tick that finds the step
C16_UnknownWorkerTick == [][C16_FailsSaga]_vars

\* a tick has failed a Queued step without a worker and rolled back a step that
\* had finished
C16_Reached ==
    /\ last.op = "tick"
    /\ failSagaOnError
    /\ sagaStatus = "Failed"
    /\ \E id \in StepIds : steps[id].status = "Failed" /\ calls[id] = <<>> /\ id \in queueMap
    /\ \E id \in StepIds : steps[id].status = "RolledBack"

\* a Queued step whose worker is not registered, under failSagaOnError = false
C17_Waiting(id) ==
    /\ ~ failSagaOnError
    /\ id \in StepIds
    /\ steps[id].status = "Queued"
    /\ steps[id].workerName \notin workers

C17_TickKeeps ==
    (last'.op = "tick" /\ ~ failSagaOnError) =>
        /\ sagaStatus' = sagaStatus
        /\ \A id \in StepIds :
               (steps[id].status = "Queued" /\ steps[id].workerName \notin workers) =>
                   steps'[id] = steps[id] /\ calls'[id] = calls[id]

\* C17: with failSagaOnError = false, a tick leaves a Queued step whose worker is
\* not registered Queued and the saga's status as it is; the step does not hold
\* an in-flight slot for ever; and once its worker is registered a later tick
\* dispatches it
C17_UnknownWorkerStaysQueued ==
    /\ [][C17_TickKeeps]_vars
    /\ \A id \in 1..MaxSteps : (C17_Waiting(id) /\ id \in queueMap) ~> (id \notin queueMap)
    /\ \A id \in 1..MaxSteps :
           (~ failSagaOnError /\ id \in StepIds /\ steps[id].status = "Queued"
              /\ steps[id].workerName \in workers) ~> (id \in StepIds /\ calls[id] # <<>>)

\* the part of C17 about what a tick does to the step and the saga
C17_TickKeepsQueued == [][C17_TickKeeps]_vars

\* a tick has left a step without a worker Queued, holding a slot, in a saga
\* that stays Running
C17_Reached ==
    /\ last.op = "tick"
    /\ sagaStatus = "Running"
    /\ \E id \in StepIds : C17_Waiting(id) /\ id \in queueMap

\* a slot held for a dispatched step (its worker was run) whose status has left
\* Running
C18_SlotOfCompleted(id) ==
    /\ id \in StepIds
    /\ id \in queueMap
    /\ calls[id] # <<>>
    /\ steps[id].status \in {"Finished", "Failed", "RolledBack"}

\* C18: whenever a step that holds an in-flight slot has left Running (Finished,
\* Failed or RolledBack), a later tick removes the slot, also when the step
\* completes after its saga became Finished or Failed
C18_SlotsEventuallyReleased ==
    \A id \in 1..MaxSteps : C18_SlotOfCompleted(id) ~> ~ C18_SlotOfCompleted(id)

\* C19: restorePreviousState on an orchestrator that holds no saga, over an
\* existing store, registers the persisted saga exactly if its status is neither
\* Finished nor Failed, and modifies no saga or step record
C19_Restore ==
    (last'.op = "restorePreviousState" /\ ~ sagas) =>
        /\ sagas' = (sagaStatus \notin {"Finished", "Failed"})
        /\ sagaStatus' = sagaStatus
        /\ steps' = steps

C19_RestoresUnfinishedSagas == [][C19_Restore]_vars

\* C19 witness: after a restart in the middle of the execution (a step Finished,
\* a step Running), restorePreviousState has registered the Running saga
C19_Witness ==
    /\ last.op = "restorePreviousState"
    /\ sagas
    /\ sagaStatus = "Running"
    /\ invoked = {} /\ workers = {}
    /\ \E id \in StepIds : steps[id].status = "Finished"
    /\ \E id \in StepIds : steps[id].status = "Running"

\* C20: after stop() no dispatcher tick starts until start() is called again,
\* for any sequence of start and stop calls after the start in the constructor;
\* so while stopped the Queued steps stay Queued
C20_Stopped ==
    ~ pollingInterval =>
        /\ last'.op # "tick"
        /\ \A id \in StepIds : steps[id].status = "Queued" => steps'[id].status = "Queued"

C20_NoTickWhileStopped == [][C20_Stopped]_vars

\* C21: a store operation that fails during a tick does not stop the dispatcher:
\* after a callback of a tick has rejected, the tick lock is released (so that
\* later ticks run and dispatch the Queued steps).
C21_LockReleasedAfterStoreFailure == rejected ~> ~ tickLock

\* C22: stepFinished with a result that is not JSON-encodable writes nothing: the
\* step's record, every other step and the saga's status are unchanged.
C22_NotEncodable == last'.op = "stepFinishedNotEncodable"

C22_NotEncodableWritesNothing ==
    [][C22_NotEncodable => (steps' = steps /\ sagaStatus' = sagaStatus)]_vars

\* C23: compensateWith on an initialized step creates exactly one new step, whose
\* dependsOn is the one-element list of the compensated step's id and whose status
\* is WaitingForCompensation, and sets the compensated step's compensatorId to the
\* new step's id, leaving its other fields and the other steps as they were; on
\* an uninitialized step it creates nothing.
C23_Called == last'.op = "compensateWith" /\ last' # last

C23_Created(id) ==
    /\ Len(steps') = Len(steps) + 1
    /\ steps'[Len(steps')].dependsOn = <<id>>
    /\ steps'[Len(steps')].status = "WaitingForCompensation"
    /\ steps'[Len(steps')].id \notin {steps[k].id : k \in StepIds}
    /\ steps'[id].compensatorId = Len(steps')
    /\ \A f \in DOMAIN steps[id] \ {"compensatorId"} : steps'[id][f] = steps[id][f]
    /\ \A k \in StepIds \ {id} : steps'[k] = steps[k]

C23_CompensateWith ==
    [][C23_Called => IF last'.id = NoStep THEN steps' = steps ELSE C23_Created(last'.id)]_vars

C23_Witness ==
    /\ last.op = "compensateWith"
    /\ last.id # NoStep
    /\ Len(steps) = 3
    /\ steps[3].status = "WaitingForCompensation"
    /\ steps[last.id].compensatorId = 3

\* C24: when a compensator completes (stepFinished is called for it, which
\* happens after the saga has Failed), the compensator becomes Finished, the saga
\* stays Failed and no Created step is promoted to Queued.
C24_CompensatorCompletes ==
    /\ last'.op = "stepFinished"
    /\ last' # last
    /\ IsCompensator(steps, last'.id)

C24_SagaStaysFailed ==
    [][C24_CompensatorCompletes =>
          /\ sagaStatus = "Failed"
          /\ sagaStatus' = "Failed"
          /\ steps'[last'.id].status = "Finished"
          /\ \A k \in StepIds \ {last'.id} : steps'[k] = steps[k]]_vars

C24_Witness ==
    /\ last.op = "stepFinished"
    /\ IsCompensator(steps, last.id)
    /\ steps[last.id].status = "Finished"
    /\ sagaStatus = "Failed"
    /\ \E k \in StepIds : steps[k].status = "Created"

\* C25: a compensator that fails does not cascade: stepFailed called for a
\* compensator marks it Failed, leaves the saga Failed and changes the status of
\* no other step.
C25_CompensatorFails ==
    /\ last'.op = "stepFailed"
    /\ last' # last
    /\ IsCompensator(steps, last'.id)

C25_FailedCompensatorDoesNotCascade ==
    [][C25_CompensatorFails =>
          /\ sagaStatus' = "Failed"
          /\ steps'[last'.id].status = "Failed"
          /\ \A k \in StepIds \ {last'.id} : steps'[k].status = steps[k].status]_vars

\* C26: every compensator that the failure cascade has made Queued and whose
\* worker is registered is eventually dispatched (its worker is invoked): when
\* such compensators of a saga that is registered with the dispatcher are waiting
\* for their dispatch, a time comes when none is.
C26_QueuedCompensator(id) ==
    /\ IsCompensator(steps, id)
    /\ steps[id].status = "Queued"
    /\ steps[id].workerName \in workers
    /\ calls[id] = <<>>

C26_Waiting == \E id \in StepIds : C26_QueuedCompensator(id)

C26_CompensatorsEventuallyDispatched == (sagas /\ C26_Waiting) ~> ~ C26_Waiting

\* C27: sequential create operations on a table return the consecutive integers
\* from 1 as strings: the k-th step created in a saga has id k in its record.
C27_Decimal == <<"1", "2", "3", "4", "5", "6", "7", "8", "9">>

C27_SequentialIds == \A k \in StepIds : steps[k].id = C27_Decimal[k]

\* with the create() of the meta table the ids are the ones of C27
C27_MetaTableIds == db.create = "meta" => C27_SequentialIds

\* C28: stepFinished(id, r) for a step that is already Finished with result r
\* changes no step record, and the saga's status only as the tick it runs again
\* does (a Running saga without Created steps is written Finished); no worker is
\* invoked.
C28_Again == last'.op = "stepFinishedAgain"

C28_StepFinishedIdempotent ==
    [][C28_Again => /\ steps' = steps
                    /\ sagaStatus' # sagaStatus =>
                           /\ sagaStatus = "Running"
                           /\ unqueuedSteps(steps) = {}
                           /\ sagaStatus' = "Finished"
                    /\ calls' = calls
                    /\ invoked' = invoked]_vars

C28_Witness ==
    /\ last.op = "stepFinishedAgain"
    /\ sagaStatus = "Running"
    /\ \E k \in StepIds : steps[k].status = "Running"
    /\ \E k \in StepIds : steps[k].status = "Created"

\* C29: at most one tick body executes at any time, and a firing of the timer
\* that arrives while a tick is in progress reads and writes nothing: it starts
\* no callback, and the records, the in-flight map and the lock are as before.
C29_Dropped == last'.op = "tickDropped" /\ last' # last

C29_OneTickBody == Len(pending) <= 1 /\ (pending # <<>> => tickLock)

C29_FiringDroppedWhileTicking ==
    /\ [] C29_OneTickBody
    /\ [][C29_Dropped => /\ tickLock
                          /\ UNCHANGED <<sagaStatus, steps, sagas, queueMap, invoked, calls,
                                          tickLock, pending>>]_vars

C29_Witness ==
    /\ last.op = "tickDropped"
    /\ tickLock
    /\ pending # <<>>
    /\ \E id \in StepIds : steps[id].status = "Queued" /\ id \notin queueMap

\* C30: a compensator leaves WaitingForCompensation only through the rollback of
\* the step it compensates: a compensator that is Queued, Running, Finished or
\* Failed has a RolledBack parent, and the operations that run Saga.tick (start,
\* stepFinished) never take a compensator out of WaitingForCompensation.
C30_Parents(id) == {p \in StepIds : steps[p].compensatorId = id}

C30_ParentRolledBack ==
    \A id \in StepIds :
        (IsCompensator(steps, id)
            /\ steps[id].status \in {"Queued", "Running", "Finished", "Failed"}) =>
        \A p \in C30_Parents(id) : steps[p].status = "RolledBack"

C30_LeavesWaiting(id) ==
    /\ IsCompensator(steps, id)
    /\ steps[id].status = "WaitingForCompensation"
    /\ steps'[id].status # "WaitingForCompensation"

C30_OnlyByRollback ==
    \A id \in StepIds :
        C30_LeavesWaiting(id) =>
            /\ last'.op \in {"stepFailed", "tick"}
            /\ steps'[id].status = "Queued"
            /\ \A p \in C30_Parents(id) :
                   steps[p].status = "Finished" /\ steps'[p].status = "RolledBack"

C30_CompensatorEnqueuedByRollbackOnly == [] C30_ParentRolledBack /\ [][C30_OnlyByRollback]_vars

C30_Witness ==
    \E id \in StepIds :
        /\ IsCompensator(steps, id)
        /\ steps[id].status = "Running"
        /\ \A p \in C30_Parents(id) : steps[p].status = "RolledBack"

\* C31: any two create operations on the same table return distinct ids and
\* neither stored record overwrites the other, also when their store operations
\* interleave: the addStep calls that have returned have pairwise distinct ids,
\* and the step table holds one record for each of them.
C31_Created == {i \in DOMAIN ops : ops[i].op = "addStep" /\ ops[i].pc = "done"}

C31_DistinctIds ==
    /\ \A i, j \in C31_Created : i # j => ops[i].ret # ops[j].ret
    /\ Cardinality(C31_Created) = Len(steps)

\* with the create() of helpers/db.ts the property of C31 holds
C31_UuidDistinctIds == db.create = "uuid" => C31_DistinctIds

\* C32: Saga.tick on a Running saga in which no Created step has all its
\* dependencies Finished changes neither the saga's status nor any step record,
\* also when no step is Created and the remaining ones are Queued or Running.
C32_Quiescent == sagaStatus = "Running" /\ stepsToExecute(steps) = {}

C32_QuiescentTickNoOp ==
    [][last'.op = "sagaTick" /\ C32_Quiescent => UNCHANGED <<sagaStatus, steps>>]_vars

\* the part of C32 that holds: the step records are left as they are
C32_QuiescentTickKeepsSteps ==
    [][last'.op = "sagaTick" /\ C32_Quiescent => UNCHANGED steps]_vars

\* C33: SagaStep.enqueueStep on a step with a dependency that is neither Finished
\* nor RolledBack throws and leaves the step table as it is; otherwise it writes
\* the step Queued with the results of its dependencies, in dependsOn order, as
\* dependencyArgs.  And whatever handler writes a step Queued, every step it
\* depends on is then Finished or RolledBack.
C33_Called(id) == last'.op \in {"enqueueStep", "enqueueStepThrows"} /\ last'.id = id /\ last' # last

C33_Unsatisfied(id) == DependsOnStatuses(steps, id) \ {"Finished", "RolledBack"} # {}

C33_EnqueueChecksDependencies ==
    [][\A id \in StepIds :
        /\ C33_Called(id) =>
              IF C33_Unsatisfied(id)
              THEN last'.op = "enqueueStepThrows" /\ steps' = steps
              ELSE /\ last'.op = "enqueueStep"
                   /\ steps'[id].status = "Queued"
                   /\ steps'[id].dependencyArgs =
                          [i \in DOMAIN steps[id].dependsOn |-> steps[steps[id].dependsOn[i]].result]
                   /\ \A other \in StepIds \ {id} : steps'[other] = steps[other]
        /\ steps[id].status # "Queued" /\ steps'[id].status = "Queued" =>
              DependsOnStatuses(steps', id) \subseteq {"Finished", "RolledBack"}]_vars

\* an enqueue that threw on a step with an unfinished dependency, and one that
\* went through on a step whose dependency is not Finished but RolledBack
C33_Witness ==
    /\ last.op = "enqueueStepThrows"
    /\ \E id \in StepIds : steps[id].status = "Created" /\ "Running" \in DependsOnStatuses(steps, id)

C33_WitnessRolledBack ==
    /\ last.op = "enqueueStep"
    /\ steps[last.id].status = "Queued"
    /\ "RolledBack" \in DependsOnStatuses(steps, last.id)

\* C34: once the saga's status has been written Failed, no step is promoted from
\* Created to Queued, also not by a Saga.tick that was in progress when the
\* failure was recorded.
C34_Promoted(id) == steps[id].status = "Created" /\ steps'[id].status = "Queued"

C34_NoPromotionAfterFailed ==
    [][sagaStatus = "Failed" => \A id \in StepIds : ~ C34_Promoted(id)]_vars

\* the part of C34 that holds: a tick that reads a status other than Running
\* writes nothing and returns
C34_TickOnFailedWritesNothing ==
    [][\A i \in DOMAIN ops :
          ops[i].pc = "tick.status" /\ ops'[i].pc # "tick.status" /\ sagaStatus # "Running"
              => ops'[i].pc = "done" /\ UNCHANGED <<sagaStatus, steps>>]_vars

\* C35: stepFailed(stepId) called for a step that is Finished and has a
\* compensator ends with that step RolledBack, its compensator Queued with the
\* step's result as its only dependencyArg, and the saga Failed, whatever the
\* saga's status was (Finished included).
C35_Called(id) ==
    /\ last'.op = "stepFailedFinished" /\ last'.id = id /\ last' # last
    /\ steps[id].compensatorId # NoStep

C35_FinishedStepRolledBack ==
    [][\A id \in StepIds :
          C35_Called(id) =>
              /\ sagaStatus' = "Failed"
              /\ steps'[id].status = "RolledBack"
              /\ steps'[id].result = steps[id].result
              /\ steps'[steps[id].compensatorId].status = "Queued"
              /\ steps'[steps[id].compensatorId].dependencyArgs = <<steps[id].result>>]_vars

\* the saga of one step and its compensator, which was Finished when stepFailed
\* was called for the step
C35_Witness ==
    /\ last.op = "stepFailedFinished"
    /\ Len(steps) = 2
    /\ sagaStatus = "Failed"
    /\ steps[1].status = "RolledBack" /\ steps[1].result = "r1"
    /\ steps[2].status = "Queued" /\ steps[2].dependencyArgs = <<"r1">>

\* C36: with step ids allocated per saga, a slot held by a Running step of one
\* saga is not released because of a step with the same id in another saga, so
\* the number of steps whose persisted status is Running never exceeds the
\* capacity.
C36_Running ==
    Cardinality({id \in StepIds : steps[id].status = "Running"})
        + Cardinality({i \in DOMAIN others : others[i] = "Running"})

C36_RunningWithinCapacity == C36_Running <= queueSize

\* with the ids of helpers/db.ts, which no two steps share, the property holds
C36_UuidRunningWithinCapacity == db.create = "uuid" => C36_RunningWithinCapacity

\* C37: no lost wake-up.  When stepFinished has been called for both steps that a
\* step depends on, with the store operations of the two calls interleaved in any
\* way, and both calls have returned, the dependent step is Queued (or has been
\* run since) and its dependencyArgs hold both results in dependsOn order.
C37_Returned(id) ==
    {i \in DOMAIN ops : ops[i].op = "stepFinished" /\ ops[i].id = id /\ ops[i].pc = "done"}

C37_BothReturned(id) ==
    /\ Len(steps[id].dependsOn) = 2
    /\ \A d \in 1..2 : C37_Returned(steps[id].dependsOn[d]) # {}

C37_NoLostWakeUp ==
    \A id \in StepIds :
        C37_BothReturned(id) =>
            /\ steps[id].status = "Queued" \/ calls[id] # <<>>
            /\ \A d \in 1..2 : \A i \in C37_Returned(steps[id].dependsOn[d]) :
                   steps[id].dependencyArgs[d] = ops[i].result

\* the two calls have returned, with different results, and the dependent step,
\* whose dependsOn names the later step first, is Queued
C37_Witness ==
    /\ Len(steps) = 3 /\ steps[3].dependsOn = <<2, 1>>
    /\ C37_BothReturned(3)
    /\ steps[3].status = "Queued"
    /\ steps[3].dependencyArgs = <<"r1", NoResult>>

\* C38: no lost update on a step record.  Once stepFinished(id, r) has returned,
\* the persisted status of the step stays Finished and its result stays r (in a
\* saga without failures, where nothing rolls the step back).
C38_Returned(id) ==
    /\ steps[id].status = "Finished"
    /\ ~ \E i \in Active("stepFinished") : ops[i].id = id

C38_FinishedNotOverwritten ==
    [][\A id \in StepIds :
          C38_Returned(id) =>
              steps'[id].status = "Finished" /\ steps'[id].result = steps[id].result]_vars

\* C39: each compensator is promoted to Queued at most once and its worker is
\* invoked at most once, also when stepFailed is called for two different steps
\* of the saga, concurrently or one after the other.
C39_CompensatorInvokedOnce ==
    \A id \in StepIds : IsCompensator(steps, id) => Len(calls[id]) <= 1

C39_CompensatorPromotedOnce ==
    [][\A id \in StepIds :
          IsCompensator(steps, id) /\ steps[id].status \notin {"WaitingForCompensation", "Queued"}
              => steps'[id].status # "Queued"]_vars

====
